---- MODULE Spec2Model ----
(***************************************************************************)
(* A model of the CSV data-analyst backend: the upload / chat-query /      *)
(* cleanup endpoints of backend/main.py, the query router of               *)
(* backend/services/ai_service.py and the profiling routines of            *)
(* backend/services/data_analyzer.py.                                      *)
(*                                                                         *)
(* Text (queries, keywords, file names, session ids) is a sequence of      *)
(* one-character strings, so that str.lower(), the `in` substring test and *)
(* glob matching are computed character by character.                      *)
(***************************************************************************)
EXTENDS Integers, Sequences, FiniteSets, TLC

VARIABLES
    temp_dir,   \* the files of TEMP_DIR: <<file name, content>> pairs
    issued,     \* the session ids uuid4 has generated so far
    request,    \* the operation applied last, with its arguments
    response    \* what that operation returned or raised

vars == <<temp_dir, issued, request, response>>

\* What the handlers keep between requests.
store == <<temp_dir, issued>>

(***************************************************************************)
(* Text primitives                                                         *)
(***************************************************************************)

\* str.lower() restricted to ASCII: the upper-case letters and their images.
UpperToLower ==
    "A" :> "a" @@ "B" :> "b" @@ "C" :> "c" @@ "D" :> "d" @@ "E" :> "e" @@ "F" :> "f"
    @@ "G" :> "g" @@ "H" :> "h" @@ "I" :> "i" @@ "J" :> "j" @@ "K" :> "k" @@ "L" :> "l"
    @@ "M" :> "m" @@ "N" :> "n" @@ "O" :> "o" @@ "P" :> "p" @@ "Q" :> "q" @@ "R" :> "r"
    @@ "S" :> "s" @@ "T" :> "t" @@ "U" :> "u" @@ "V" :> "v" @@ "W" :> "w" @@ "X" :> "x"
    @@ "Y" :> "y" @@ "Z" :> "z"

LowerChar(c) == IF c \in DOMAIN UpperToLower THEN UpperToLower[c] ELSE c

\* s.lower()
Lower(s) == [i \in 1..Len(s) |-> LowerChar(s[i])]

\* `sub in s` for Python strings: sub occurs as a contiguous substring of s.
Contains(sub, s) ==
    \E i \in 0..(Len(s) - Len(sub)) : SubSeq(s, i + 1, i + Len(sub)) = sub

\* any(keyword in s for keyword in keywords)
AnyKeywordIn(keywords, s) ==
    \E k \in 1..Len(keywords) : Contains(keywords[k], s)

\* " ".join(parts)
RECURSIVE JoinSpace(_)
JoinSpace(parts) ==
    IF parts = <<>> THEN <<>>
    ELSE IF Len(parts) = 1 THEN parts[1]
    ELSE parts[1] \o <<" ">> \o JoinSpace(Tail(parts))

(***************************************************************************)
(* AIService._determine_user_intent                                        *)
(***************************************************************************)

chart_keywords ==
    << <<"p", "l", "o", "t">>,
       <<"c", "h", "a", "r", "t">>,
       <<"g", "r", "a", "p", "h">>,
       <<"v", "i", "s", "u", "a", "l", "i", "z", "e">>,
       <<"v", "i", "s", "u", "a", "l", "i", "z", "a", "t", "i", "o", "n">>,
       <<"s", "h", "o", "w", " ", "m", "e", " ", "a">>,
       <<"c", "r", "e", "a", "t", "e", " ", "a">>,
       <<"c", "r", "e", "a", "t", "e">>,
       <<"m", "a", "k", "e", " ", "a">>,
       <<"d", "r", "a", "w">>,
       <<"h", "i", "s", "t", "o", "g", "r", "a", "m">>,
       <<"b", "a", "r", " ", "c", "h", "a", "r", "t">>,
       <<"l", "i", "n", "e", " ", "c", "h", "a", "r", "t">>,
       <<"s", "c", "a", "t", "t", "e", "r", " ", "p", "l", "o", "t">>,
       <<"p", "i", "e", " ", "c", "h", "a", "r", "t">>,
       <<"h", "e", "a", "t", "m", "a", "p">>,
       <<"b", "o", "x", " ", "p", "l", "o", "t">>,
       <<"d", "i", "s", "t", "r", "i", "b", "u", "t", "i", "o", "n", " ", "c", "h", "a", "r", "t">>,
       <<"s", "u", "r", "v", "i", "v", "a", "l", " ", "c", "h", "a", "r", "t">> >>

text_keywords ==
    << <<"h", "o", "w", " ", "m", "a", "n", "y">>,
       <<"w", "h", "a", "t", " ", "i", "s">>,
       <<"t", "e", "l", "l", " ", "m", "e">>,
       <<"e", "x", "p", "l", "a", "i", "n">>,
       <<"a", "n", "a", "l", "y", "z", "e">>,
       <<"s", "u", "m", "m", "a", "r", "y">>,
       <<"c", "o", "u", "n", "t">>,
       <<"a", "v", "e", "r", "a", "g", "e">>,
       <<"m", "e", "a", "n">>,
       <<"m", "e", "d", "i", "a", "n">>,
       <<"t", "o", "t", "a", "l">>,
       <<"p", "e", "r", "c", "e", "n", "t", "a", "g", "e">>,
       <<"w", "h", "y">>,
       <<"w", "h", "o">>,
       <<"w", "h", "e", "n">>,
       <<"w", "h", "e", "r", "e">>,
       <<"w", "h", "i", "c", "h">>,
       <<"d", "e", "s", "c", "r", "i", "b", "e">>,
       <<"c", "o", "m", "p", "a", "r", "e", " ", "w", "i", "t", "h", "o", "u", "t">> >>

\* The mutation of _determine_user_intent that tests the text keywords first.
DetermineUserIntentTextFirst(user_query) ==
    LET query_lower == Lower(user_query) IN
    IF AnyKeywordIn(text_keywords, query_lower) THEN "text"
    ELSE IF AnyKeywordIn(chart_keywords, query_lower) THEN "chart"
    ELSE "text"

\* The mutation of _determine_user_intent whose default answer is "chart".
DetermineUserIntentDefaultChart(user_query) ==
    LET query_lower == Lower(user_query) IN
    IF AnyKeywordIn(chart_keywords, query_lower) THEN "chart"
    ELSE IF AnyKeywordIn(text_keywords, query_lower) THEN "text"
    ELSE "chart"

_determine_user_intent(user_query) ==
    LET query_lower == Lower(user_query) IN
    IF AnyKeywordIn(chart_keywords, query_lower) THEN "chart"
    ELSE IF AnyKeywordIn(text_keywords, query_lower) THEN "text"
    ELSE "text"


(***************************************************************************)
(* The queries the intent classifier is applied to: one focus phrase       *)
(* (every keyword of either list, and some phrases that are not keywords), *)
(* with up to MaxCtx context phrases before and after it, joined by        *)
(* spaces.  Keywords may therefore also arise across phrase boundaries.    *)
(***************************************************************************)
MaxCtx == 1

ExtraPhrases ==
    { <<"P", "l", "o", "t">>,
       <<"H", "E", "A", "T", "M", "A", "P">>,
       <<"C", "r", "e", "a", "t", "e">>,
       <<"v", "i", "s", "u", "a", "l", "i", "z", "a", "t", "i", "o", "n", "s">>,
       <<"f", "a", "r", "e", "s", " ", "b", "y", " ", "a", "g", "e">>,
       <<"p", "a", "s", "s", "e", "n", "g", "e", "r", "s">>,
       <<"r", "e", "c", "r", "e", "a", "t", "e", "d">>,
       <<"S", "h", "o", "w", " ", "M", "e", " ", "A">> }

FocusPhrases ==
    {chart_keywords[k] : k \in DOMAIN chart_keywords}
        \cup {text_keywords[k] : k \in DOMAIN text_keywords}
        \cup ExtraPhrases

ContextPhrases ==
    { <<"w", "h", "a", "t", " ", "i", "s", " ", "t", "h", "e">>,
       <<"c", "o", "u", "n", "t">>,
       <<"C", "h", "a", "r", "t">>,
       <<"o", "f", " ", "f", "a", "r", "e", "s">> }

RECURSIVE SeqsUpTo(_, _)
\* All sequences over S of length at most n.
SeqsUpTo(S, n) ==
    IF n = 0 THEN {<<>>}
    ELSE LET shorter == SeqsUpTo(S, n - 1) IN
         shorter \cup {Append(s, x) : s \in shorter, x \in S}

IntentQueries ==
    {JoinSpace(pre \o <<f>> \o post) :
        f \in FocusPhrases,
        pre \in SeqsUpTo(ContextPhrases, MaxCtx),
        post \in SeqsUpTo(ContextPhrases, MaxCtx)}

\* The chart-intent terms as the specification text lists them.
SpecChartTerms ==
    << <<"p", "l", "o", "t">>,
       <<"c", "h", "a", "r", "t">>,
       <<"g", "r", "a", "p", "h">>,
       <<"v", "i", "s", "u", "a", "l", "i", "z", "e">>,
       <<"h", "i", "s", "t", "o", "g", "r", "a", "m">>,
       <<"b", "a", "r", " ", "c", "h", "a", "r", "t">>,
       <<"l", "i", "n", "e", " ", "c", "h", "a", "r", "t">>,
       <<"s", "c", "a", "t", "t", "e", "r", " ", "c", "h", "a", "r", "t">>,
       <<"p", "i", "e", " ", "c", "h", "a", "r", "t">>,
       <<"b", "o", "x", " ", "c", "h", "a", "r", "t">>,
       <<"d", "r", "a", "w">>,
       <<"s", "h", "o", "w", " ", "m", "e", " ", "a">>,
       <<"c", "r", "e", "a", "t", "e", " ", "a">>,
       <<"m", "a", "k", "e", " ", "a">>,
       <<"d", "i", "s", "t", "r", "i", "b", "u", "t", "i", "o", "n", " ", "c", "h", "a", "r", "t">>,
       <<"s", "u", "r", "v", "i", "v", "a", "l", " ", "c", "h", "a", "r", "t">> >>

(***************************************************************************)
(* Initial state and the intent-classification specification               *)
(***************************************************************************)

NoResponse == [kind |-> "none"]

\* The classifier is about to be applied to one of the queries.
InitIntent ==
    /\ temp_dir = {}
    /\ issued = {}
    /\ request \in {[op |-> "_determine_user_intent", user_query |-> q] :
                        q \in IntentQueries}
    /\ response = NoResponse

\* One application of _determine_user_intent to the query.
DetermineUserIntent ==
    /\ request.op = "_determine_user_intent"
    /\ response = NoResponse
    /\ response' = [kind |-> "intent",
                    intent |-> _determine_user_intent(request.user_query)]
    /\ UNCHANGED <<store, request>>

NextIntent == DetermineUserIntent

SpecIntent == InitIntent /\ [][NextIntent]_vars

IsIntentCall == request.op = "_determine_user_intent" /\ response.kind = "intent"

\* C1: a query whose lower-cased form contains a chart-intent keyword is
\* classified "chart", also when it contains text-intent keywords.
C1_ChartPrecedence ==
    (IsIntentCall /\ AnyKeywordIn(chart_keywords, Lower(request.user_query)))
        => response.intent = "chart"

\* C1 witness: a query holding both a chart and a text keyword was classified.
C1_Witness ==
    /\ IsIntentCall
    /\ AnyKeywordIn(chart_keywords, Lower(request.user_query))
    /\ AnyKeywordIn(text_keywords, Lower(request.user_query))
    /\ response.intent = "chart"

\* C2 as stated: a query containing none of the chart-intent terms that the
\* specification lists is classified "text".
C2_Original ==
    (IsIntentCall /\ ~AnyKeywordIn(SpecChartTerms, Lower(request.user_query)))
        => response.intent = "text"

\* C2 amended: a query containing none of the chart keywords of the code
\* (the listed terms and also "visualization", "create" and "heatmap") is
\* classified "text", with or without a text-intent keyword.
C2_NoChartKeywordIsText ==
    (IsIntentCall /\ ~AnyKeywordIn(chart_keywords, Lower(request.user_query)))
        => response.intent = "text"

\* C2 witness: both cases occur, one query with a text keyword and no chart
\* keyword is covered by the conjunct below; the other by C2_Witness itself.
C2_Witness ==
    /\ IsIntentCall
    /\ ~AnyKeywordIn(chart_keywords, Lower(request.user_query))
    /\ ~AnyKeywordIn(text_keywords, Lower(request.user_query))
    /\ response.intent = "text"


(***************************************************************************)
(* Tables (pandas DataFrames as pd.read_csv / pd.read_excel build them)    *)
(*                                                                         *)
(* A cell is <<kind, v>>: a null (NaN), a number, or a string (v is the    *)
(* rank of the string in lexicographic order).                             *)
(* A table is [columns |-> names, rows |-> sequence of rows], each row a   *)
(* sequence of cells as long as columns.                                   *)
(***************************************************************************)
Null == <<"null", 0>>
Num(n) == <<"num", n>>
Str(k) == <<"str", k>>

IsNull(cell) == cell[1] = "null"

NRows(df) == Len(df.rows)
NCols(df) == Len(df.columns)

\* df[col] as the sequence of its cells, in row order.
Column(df, j) == [i \in 1..NRows(df) |-> df.rows[i][j]]

\* The dtype the parser infers for column j: a column of no rows is object;
\* nulls and numbers only give int64/float64; a column with a string is
\* object.
Dtype(df, j) ==
    LET cells == {df.rows[i][j] : i \in 1..NRows(df)} IN
    IF NRows(df) = 0 THEN "object"
    ELSE IF \A x \in cells : x[1] \in {"null", "num"} THEN "number"
    ELSE "object"

\* df.select_dtypes(include=[np.number]).columns.tolist(), as column indices
RECURSIVE SelectIdx(_, _, _)
SelectIdx(df, dtype, j) ==
    IF j > NCols(df) THEN <<>>
    ELSE (IF Dtype(df, j) = dtype THEN <<j>> ELSE <<>>)
             \o SelectIdx(df, dtype, j + 1)

numeric_cols(df) == SelectIdx(df, "number", 1)
categorical_cols(df) == SelectIdx(df, "object", 1)

\* df[col].isnull().sum()
NullCount(df, j) == Cardinality({i \in 1..NRows(df) : IsNull(df.rows[i][j])})

RECURSIVE SumNulls(_, _)
\* df.isnull().sum().sum() over the columns j..NCols
SumNulls(df, j) ==
    IF j > NCols(df) THEN 0 ELSE NullCount(df, j) + SumNulls(df, j + 1)

missing_cells(df) == SumNulls(df, 1)

\* df.count().sum()
non_null_cells(df) == NRows(df) * NCols(df) - missing_cells(df)

\* df.duplicated().sum(): the rows equal to an earlier row (NaN equals NaN)
duplicate_count(df) ==
    Cardinality({i \in 1..NRows(df) :
                    \E k \in 1..(i - 1) : df.rows[k] = df.rows[i]})

\* (df.isnull().sum() / rows > 0.5).sum()
high_missing_cols(df) ==
    Cardinality({j \in 1..NCols(df) : 2 * NullCount(df, j) > NRows(df)})

(***************************************************************************)
(* DataAnalyzer._calculate_health_score                                    *)
(*                                                                         *)
(* The score is a float in the code; here it is the exact fraction         *)
(* num / (rows * cols), truncated towards zero as int() does.              *)
(***************************************************************************)
Raised(exc) == [raised |-> TRUE, exc |-> exc]
Returned(v) == [raised |-> FALSE, value |-> v]

\* int(x) for x = num / den, den > 0: truncation towards zero
TruncDiv(num, den) ==
    IF num >= 0 THEN num \div den ELSE -((-num) \div den)

Max(a, b) == IF a >= b THEN a ELSE b
Min(a, b) == IF a <= b THEN a ELSE b

DiversityBonus(df) ==
    IF Len(numeric_cols(df)) > 0 /\ Len(categorical_cols(df)) > 0
    THEN 5 ELSE 0

\* score * rows * cols, for a table with at least one cell
ScoreNumerator(df) ==
    (100 - 5 * high_missing_cols(df) + DiversityBonus(df))
            * NRows(df) * NCols(df)
        - 100 * missing_cells(df)
        - 50 * duplicate_count(df) * NCols(df)

\* score is a float64.  For these <<missing_cells, rows * cols,
\* duplicate_count, rows>> the value of 100 - missing_pct - duplicate_pct * 0.5
\* is an integer in exact arithmetic and the float64 next below it as numpy
\* computes it (e.g. 11 / 20 * 100 = 55.00000000000001), and it stays just
\* below an integer after the penalty and the bonus.  For every other table
\* of at most 5 rows and 5 columns the float64 truncates as the exact value.
Float64JustBelow ==
    {<<5, 6, 1, 3>>, <<10, 12, 1, 3>>, <<11, 20, 0, 4>>, <<11, 20, 2, 4>>}
        \cup {<<11, 20, d, 5>> : d \in 0..4}
        \cup {<<14, 25, d, 5>> : d \in 0..4}

\* int(score), for a table with at least one cell
IntOfScore(df) ==
    LET cells == NRows(df) * NCols(df)
        exact == TruncDiv(ScoreNumerator(df), cells)
        below == /\ <<missing_cells(df), cells, duplicate_count(df), NRows(df)>>
                        \in Float64JustBelow
                 /\ ScoreNumerator(df) > 0
    IN  IF below THEN exact - 1 ELSE exact

\* The mutation of _calculate_health_score that omits the clamp to [0, 100].
CalculateHealthScoreNoClamp(df) ==
    IF NRows(df) * NCols(df) = 0
    THEN Raised("ValueError")
    ELSE Returned(IntOfScore(df))

\* With no row or no column the percentages are 0/0 = NaN (numpy) and
\* int(NaN) raises ValueError.
_calculate_health_score(df) ==
    IF NRows(df) * NCols(df) = 0
    THEN Raised("ValueError")
    ELSE Returned(Max(0, Min(100, IntOfScore(df))))

(***************************************************************************)
(* Completeness percentage                                                 *)
(***************************************************************************)

\* num / den rounded to the nearest integer, ties to even, as round(x, 1)
\* and the format "{:.1f}" round; num >= 0, den > 0.
RoundHalfEven(num, den) ==
    LET q == num \div den
        r == num % den
    IN  IF 2 * r < den THEN q
        ELSE IF 2 * r > den THEN q + 1
        ELSE IF q % 2 = 0 THEN q ELSE q + 1

\* (non_null_cells / total_cells) * 100 to one decimal, in tenths of a percent
CompletenessTenths(df) ==
    RoundHalfEven(1000 * non_null_cells(df), NRows(df) * NCols(df))

\* The mutation of _get_dataframe_info that reports the share of null cells.
GetDataframeInfoMissingShare(df) ==
    LET total_cells == NRows(df) * NCols(df)
        health == _calculate_health_score(df)
    IN  IF health.raised THEN health
        ELSE Returned(
            [shape |-> <<NRows(df), NCols(df)>>,
             columns |-> df.columns,
             null_counts |-> [j \in 1..NCols(df) |-> NullCount(df, j)],
             data_health_score |-> health.value,
             completeness_percentage |->
                 IF total_cells > 0
                 THEN RoundHalfEven(1000 * missing_cells(df), total_cells)
                 ELSE 0,
             total_cells |-> total_cells,
             non_null_cells |-> non_null_cells(df)])

\* DataAnalyzer._get_dataframe_info; completeness_percentage in tenths.
_get_dataframe_info(df) ==
    LET total_cells == NRows(df) * NCols(df)
        health == _calculate_health_score(df)
    IN  IF health.raised THEN health
        ELSE Returned(
            [shape |-> <<NRows(df), NCols(df)>>,
             columns |-> df.columns,
             null_counts |-> [j \in 1..NCols(df) |-> NullCount(df, j)],
             data_health_score |-> health.value,
             completeness_percentage |->
                 IF total_cells > 0 THEN CompletenessTenths(df) ELSE 0,
             total_cells |-> total_cells,
             non_null_cells |-> non_null_cells(df)])

\* DataAnalyzer._generate_summary, reduced to the two numbers of its
\* overview lines: the completeness (one decimal, in tenths) and the health
\* score.  With no cell the completeness is NaN and the health score raises.
_generate_summary(df) ==
    LET health == _calculate_health_score(df) IN
    IF health.raised THEN health
    ELSE Returned([completeness |-> CompletenessTenths(df),
                   health_score |-> health.value])

(***************************************************************************)
(* The profiling specification: the profiling routines applied to parsed   *)
(* tables of at most MaxRows rows, MaxCols columns and MaxCells cells.     *)
(***************************************************************************)
MaxRows == 3
MaxCols == 3
MaxCells == 6

HealthHeader == <<"col1", "col2", "col3", "col4", "col5">>

HealthCells == {Null, Num(1), Num(2), Str(1)}

\* The table the parser returns for a header and the rows under it.
ReadCsv(header, rows) == [columns |-> header, rows |-> rows]

\* A sheet without any cell parses to the table of no rows and no columns;
\* a file with a header has at least one column and any number of rows.
\* The tables of r rows and c columns.
TablesOfShape(r, c) ==
    {ReadCsv(SubSeq(HealthHeader, 1, c), rows) :
        rows \in [1..r -> [1..c -> HealthCells]]}

\* A table of 4 rows and 5 numeric columns with 11 empty cells, 3 of them in
\* the first column, and no duplicated row.
SparseTable ==
    ReadCsv(HealthHeader,
            << <<Null, Null, Num(1), Num(1), Null>>,
               <<Null, Num(1), Null, Num(2), Null>>,
               <<Null, Num(2), Num(2), Null, Num(1)>>,
               <<Num(1), Null, Null, Null, Num(2)>> >>)

HealthTables ==
    {ReadCsv(<<>>, <<>>), SparseTable}
        \cup UNION {TablesOfShape(s[1], s[2]) :
                s \in {t \in (0..MaxRows) \X (1..MaxCols) :
                            t[1] * t[2] <= MaxCells}}

InitHealth ==
    /\ temp_dir = {}
    /\ issued = {}
    /\ request \in {[op |-> "profile", df |-> t, prev |-> NoResponse] :
                        t \in HealthTables}
    /\ response = NoResponse

Profiling == request.op = "profile" /\ response = NoResponse

CalculateHealthScore ==
    /\ Profiling
    /\ response' = [kind |-> "health",
                    result |-> _calculate_health_score(request.df)]
    /\ UNCHANGED <<store, request>>

GetDataframeInfo ==
    /\ Profiling
    /\ response' = [kind |-> "info",
                    result |-> _get_dataframe_info(request.df)]
    /\ UNCHANGED <<store, request>>

GenerateSummary ==
    /\ Profiling
    /\ response' = [kind |-> "summary",
                    result |-> _generate_summary(request.df)]
    /\ UNCHANGED <<store, request>>

\* The same file with one more empty cell is profiled next; the result for
\* the table before is kept for comparison.
AddNull ==
    /\ request.op = "profile"
    /\ response # NoResponse
    /\ \E i \in 1..NRows(request.df), j \in 1..NCols(request.df) :
        /\ ~IsNull(request.df.rows[i][j])
        /\ request' = [op |-> "profile",
                       df |-> ReadCsv(request.df.columns,
                                 [request.df.rows EXCEPT ![i][j] = Null]),
                       prev |-> response]
    /\ response' = NoResponse
    /\ UNCHANGED store

NextHealth ==
    \/ CalculateHealthScore
    \/ GetDataframeInfo
    \/ GenerateSummary
    \/ AddNull

SpecHealth == InitHealth /\ [][NextHealth]_vars

NoNullCell(df) == missing_cells(df) = 0
NoDuplicatedRow(df) == duplicate_count(df) = 0

\* C6 as stated: for every table, also one without rows or columns, the
\* health score is returned (nothing is raised) and is an integer in 0..100.
C6_Original ==
    (request.op = "profile" /\ response.kind = "health")
        => (~response.result.raised /\ response.result.value \in 0..100)

\* C7: a table with no null cell, no duplicated row, a numeric and a
\* categorical column has the health score 100.
C7_PerfectTableScores100 ==
    (/\ request.op = "profile"
     /\ response.kind = "health"
     /\ NoNullCell(request.df)
     /\ NoDuplicatedRow(request.df)
     /\ Len(numeric_cols(request.df)) > 0
     /\ Len(categorical_cols(request.df)) > 0)
        => (~response.result.raised /\ response.result.value = 100)

\* C7 witness: the health score of such a table, of two rows, was computed.
C7_Witness ==
    /\ request.op = "profile"
    /\ response.kind = "health"
    /\ NoNullCell(request.df)
    /\ NoDuplicatedRow(request.df)
    /\ Len(numeric_cols(request.df)) > 0
    /\ Len(categorical_cols(request.df)) > 0
    /\ NRows(request.df) >= 2
    /\ ~response.result.raised
    /\ response.result.value = 100

\* The completeness (in tenths of a percent) that a profiling result shows.
ShownCompleteness(resp) ==
    IF resp.kind = "info" THEN resp.result.value.completeness_percentage
    ELSE resp.result.value.completeness

IsCompletenessResult(resp) == resp.kind \in {"info", "summary"}

\* Completeness does not grow from the table before to the table with one
\* more null cell, shown by the same routine.
CompletenessNotIncreased ==
    (/\ IsCompletenessResult(request.prev)
     /\ request.prev.kind = response.kind
     /\ ~request.prev.result.raised
     /\ ~response.result.raised)
        => ShownCompleteness(response) <= ShownCompleteness(request.prev)

\* C8 as stated: the completeness is 100.0 for every table without a null
\* cell and does not grow when a null is added.
C8_Original ==
    (request.op = "profile" /\ IsCompletenessResult(response))
        => /\ NoNullCell(request.df)
                => (~response.result.raised
                        /\ ShownCompleteness(response) = 1000)
           /\ CompletenessNotIncreased

\* C8 restricted to the tables that have a cell: the completeness is
\* reported; it is 100.0 when the table has no null cell and does not grow
\* when a null is added.  (It holds; C8 itself fails on the empty table.)
C8_Completeness ==
    (/\ request.op = "profile"
     /\ IsCompletenessResult(response)
     /\ NRows(request.df) >= 1
     /\ NCols(request.df) >= 1)
        => /\ ~response.result.raised
           /\ NoNullCell(request.df) => ShownCompleteness(response) = 1000
           /\ CompletenessNotIncreased

\* C8 witness: dataframe_info shows a strictly smaller completeness after a
\* null was added to a table that had none.
C8_Witness ==
    /\ request.op = "profile"
    /\ response.kind = "info"
    /\ request.prev.kind = "info"
    /\ ~response.result.raised
    /\ ShownCompleteness(request.prev) = 1000
    /\ ShownCompleteness(response) < 1000


(***************************************************************************)
(* Column access and value counts                                          *)
(***************************************************************************)
COL_Survived == <<"S", "u", "r", "v", "i", "v", "e", "d">>
COL_Age == <<"A", "g", "e">>
COL_Pclass == <<"P", "c", "l", "a", "s", "s">>
COL_Sex == <<"S", "e", "x">>
COL_Fare == <<"F", "a", "r", "e">>

\* 'name' in df.columns
HasColumn(df, name) == \E j \in 1..NCols(df) : df.columns[j] = name

\* The position of the column called name (the parser keeps names unique).
ColIdx(df, name) == CHOOSE j \in 1..NCols(df) : df.columns[j] = name

\* df[col].dropna().tolist()
RECURSIVE DropNa(_)
DropNa(cells) ==
    IF cells = <<>> THEN <<>>
    ELSE (IF IsNull(Head(cells)) THEN <<>> ELSE <<Head(cells)>>)
             \o DropNa(Tail(cells))

\* The distinct non-null values of column j.
Values(df, j) == {df.rows[i][j] : i \in 1..NRows(df)} \ {Null}

\* The number of rows of column j that hold v.
Count(df, j, v) == Cardinality({i \in 1..NRows(df) : df.rows[i][j] = v})

\* The first row that holds v in column j.
FirstRow(df, j, v) == CHOOSE i \in 1..NRows(df) :
    /\ df.rows[i][j] = v
    /\ \A k \in 1..(i - 1) : df.rows[k][j] # v

\* The order of the index values of one column: numbers by value, strings
\* lexicographically (by rank); in an object column the cells that look like
\* numbers are digit strings and sort before the letters.
CellLess(a, b) ==
    \/ a[1] = "num" /\ b[1] = "str"
    \/ a[1] = b[1] /\ a[2] < b[2]

\* df[col].value_counts(): <<value, count>> pairs, most frequent first and,
\* among equally frequent values, the one met first in the column first.
RECURSIVE CountsDescending(_, _, _)
CountsDescending(df, j, todo) ==
    IF todo = {} THEN <<>>
    ELSE LET top == CHOOSE v \in todo : \A w \in todo \ {v} :
                        \/ Count(df, j, v) > Count(df, j, w)
                        \/ /\ Count(df, j, v) = Count(df, j, w)
                           /\ FirstRow(df, j, v) < FirstRow(df, j, w)
         IN  <<<<top, Count(df, j, top)>>>>
                 \o CountsDescending(df, j, todo \ {top})

value_counts(df, j) == CountsDescending(df, j, Values(df, j))

\* The mutation of sort_index() that leaves value_counts() in its own order.
SortIndexNotSorted(df, j, todo) == CountsDescending(df, j, todo)

\* df[col].value_counts().sort_index(): the pairs in ascending value order,
\* for the values in todo.
RECURSIVE sort_index(_, _, _)
sort_index(df, j, todo) ==
    IF todo = {} THEN <<>>
    ELSE LET least == CHOOSE v \in todo : \A w \in todo \ {v} : CellLess(v, w)
         IN  <<<<least, Count(df, j, least)>>>>
                 \o sort_index(df, j, todo \ {least})

\* counts.index.tolist() and counts.values.tolist()
IndexList(counts) == [k \in 1..Len(counts) |-> counts[k][1]]
ValueList(counts) == [k \in 1..Len(counts) |-> counts[k][2]]

\* counts.head(n)
HeadN(s, n) == SubSeq(s, 1, Min(n, Len(s)))

\* value_counts().get(n, default) for an integer n.  On a numeric index the
\* integer is a label.  On any other index the pandas releases before 3.0
\* read the integer as a position (get_int = "position") and the later ones
\* as a label that no string equals (get_int = "label").
SeriesGetInt(df, j, n, default, get_int) ==
    LET counts == value_counts(df, j) IN
    IF Dtype(df, j) = "number"
    THEN IF Num(n) \in Values(df, j) THEN Count(df, j, Num(n)) ELSE default
    ELSE IF get_int = "position" /\ n + 1 <= Len(counts)
         THEN counts[n + 1][2]
         ELSE default

(***************************************************************************)
(* The direct chart templates of AIService                                 *)
(*                                                                         *)
(* env is what the surroundings decide for one query: fault names the      *)
(* stage at which an exception is raised ("none" when none is), get_int    *)
(* the pandas behaviour above, answer the oracle's raw completion.         *)
(***************************************************************************)
\* Messages and titles are the parts of the formatted string.
ErrorPayload(msg) == [error |-> msg]
ChartPayload(chart) == [type |-> "chart", chart_json |-> chart]
TextPayload(answer) == [type |-> "text", text_response |-> answer]

_create_survival_chart_direct(df, env) ==
    IF ~HasColumn(df, COL_Survived)
    THEN ErrorPayload(<<"Survival data not found in this dataset">>)
    ELSE IF env.fault = "chart"
    THEN ErrorPayload(<<"Failed to create survival chart", "exception">>)
    ELSE LET j == ColIdx(df, COL_Survived) IN
         ChartPayload(
            [type |-> "pie",
             labels |-> <<"Did not survive", "Survived">>,
             values |-> <<SeriesGetInt(df, j, 0, 0, env.get_int),
                          SeriesGetInt(df, j, 1, 0, env.get_int)>>,
             title |-> <<"Passenger Survival Distribution">>])

_create_age_chart_direct(df, env) ==
    IF ~HasColumn(df, COL_Age)
    THEN ErrorPayload(<<"Age data not found in this dataset">>)
    ELSE IF env.fault = "chart"
    THEN ErrorPayload(<<"Failed to create age chart", "exception">>)
    ELSE ChartPayload(
            [type |-> "histogram",
             x |-> DropNa(Column(df, ColIdx(df, COL_Age))),
             nbinsx |-> 30,
             title |-> <<"Age Distribution">>])

_create_class_chart_direct(df, env) ==
    IF ~HasColumn(df, COL_Pclass)
    THEN ErrorPayload(<<"Passenger class data not found in this dataset">>)
    ELSE IF env.fault = "chart"
    THEN ErrorPayload(<<"Failed to create class chart", "exception">>)
    ELSE LET j == ColIdx(df, COL_Pclass)
             class_counts == sort_index(df, j, Values(df, j))
         IN  ChartPayload(
                [type |-> "bar",
                 x |-> [k \in 1..Len(class_counts) |->
                            <<"Class", class_counts[k][1]>>],
                 y |-> ValueList(class_counts),
                 title |-> <<"Passenger Class Distribution">>])

\* The mutation of the gender template that, without a Sex column, charts
\* the first categorical column as the generic fallback would.
CreateGenderChartFallsBack(df, env) ==
    IF ~HasColumn(df, COL_Sex)
    THEN IF Len(categorical_cols(df)) > 0
         THEN LET j == categorical_cols(df)[1]
                  counts == value_counts(df, j)
              IN  ChartPayload(
                    [type |-> "bar",
                     x |-> IndexList(counts),
                     y |-> ValueList(counts),
                     title |-> <<"Distribution of", df.columns[j]>>])
         ELSE ErrorPayload(<<"Gender data not found in this dataset">>)
    ELSE IF env.fault = "chart"
    THEN ErrorPayload(<<"Failed to create gender chart", "exception">>)
    ELSE LET gender_counts == value_counts(df, ColIdx(df, COL_Sex)) IN
         ChartPayload(
            [type |-> "pie",
             labels |-> IndexList(gender_counts),
             values |-> ValueList(gender_counts),
             title |-> <<"Gender Distribution">>])

_create_gender_chart_direct(df, env) ==
    IF ~HasColumn(df, COL_Sex)
    THEN ErrorPayload(<<"Gender data not found in this dataset">>)
    ELSE IF env.fault = "chart"
    THEN ErrorPayload(<<"Failed to create gender chart", "exception">>)
    ELSE LET gender_counts == value_counts(df, ColIdx(df, COL_Sex)) IN
         ChartPayload(
            [type |-> "pie",
             labels |-> IndexList(gender_counts),
             values |-> ValueList(gender_counts),
             title |-> <<"Gender Distribution">>])


(***************************************************************************)
(* AIService._generate_ai_chart: the generic fallback                      *)
(***************************************************************************)

\* The mutation of the column choice that ignores the query.
TargetColFirst(df, idxs, query_lower) ==
    IF Len(idxs) > 0 THEN idxs[1] ELSE 0

\* The first column among idxs (column positions, in table order) whose
\* lower-cased name occurs in the query, else the first of idxs, else 0
\* (target_col is None).
TargetCol(df, idxs, query_lower) ==
    LET mentioned == {k \in 1..Len(idxs) :
                        Contains(Lower(df.columns[idxs[k]]), query_lower)}
    IN  IF mentioned # {}
        THEN idxs[CHOOSE k \in mentioned : \A m \in mentioned : k <= m]
        ELSE IF Len(idxs) > 0 THEN idxs[1]
        ELSE 0

\* The bar chart of the ten most frequent values of column j.
TopTenBarChart(df, j) ==
    LET counts == HeadN(value_counts(df, j), 10) IN
    ChartPayload(
        [type |-> "bar",
         x |-> IndexList(counts),
         y |-> ValueList(counts),
         title |-> <<"Distribution of", df.columns[j]>>])

\* The default of _generate_ai_chart: the first categorical column, if any.
DefaultChart(df) ==
    IF Len(categorical_cols(df)) > 0
    THEN TopTenBarChart(df, categorical_cols(df)[1])
    ELSE ErrorPayload(
            <<"Could not determine what chart to create from your request">>)

_generate_ai_chart(df, user_query, env) ==
    LET query_lower == Lower(user_query) IN
    IF env.fault = "chart"
    THEN ErrorPayload(<<"Failed to generate chart", "exception">>)
    ELSE IF \/ Contains(<<"h", "i", "s", "t", "o", "g", "r", "a", "m">>, query_lower)
            \/ Contains(<<"d", "i", "s", "t", "r", "i", "b", "u", "t", "i", "o", "n">>, query_lower)
    THEN LET target_col == TargetCol(df, numeric_cols(df), query_lower) IN
         IF target_col # 0
         THEN ChartPayload(
                [type |-> "histogram",
                 x |-> DropNa(Column(df, target_col)),
                 nbinsx |-> 25,
                 title |-> <<"Distribution of", df.columns[target_col]>>])
         ELSE DefaultChart(df)
    ELSE IF \/ Contains(<<"b", "a", "r">>, query_lower)
            \/ Contains(<<"c", "o", "u", "n", "t">>, query_lower)
    THEN LET target_col == TargetCol(df, categorical_cols(df), query_lower) IN
         IF target_col # 0
         THEN TopTenBarChart(df, target_col)
         ELSE DefaultChart(df)
    ELSE DefaultChart(df)

(***************************************************************************)
(* AIService._generate_chart_response: the direct-template matchers        *)
(***************************************************************************)
KW_survival == <<"s", "u", "r", "v", "i", "v", "a", "l">>
KW_chart == <<"c", "h", "a", "r", "t">>
KW_plot == <<"p", "l", "o", "t">>
KW_age == <<"a", "g", "e">>
KW_distribution == <<"d", "i", "s", "t", "r", "i", "b", "u", "t", "i", "o", "n">>
KW_histogram == <<"h", "i", "s", "t", "o", "g", "r", "a", "m">>
KW_class == <<"c", "l", "a", "s", "s">>
KW_pclass == <<"p", "c", "l", "a", "s", "s">>
KW_bar == <<"b", "a", "r">>
KW_gender == <<"g", "e", "n", "d", "e", "r">>
KW_sex == <<"s", "e", "x">>

\* The mutation of the matchers without the age matcher: an age query goes
\* on to the class and gender matchers and the generic fallback.
ChartBranchNoAge(user_query) ==
    LET q == Lower(user_query) IN
    IF Contains(KW_survival, q) /\ (Contains(KW_chart, q) \/ Contains(KW_plot, q))
    THEN "survival"
    ELSE IF (Contains(KW_class, q) \/ Contains(KW_pclass, q))
            /\ (Contains(KW_chart, q) \/ Contains(KW_bar, q))
    THEN "class"
    ELSE IF Contains(KW_gender, q) \/ Contains(KW_sex, q)
    THEN "gender"
    ELSE "generic"

\* The mutation of the matchers that tests the age matcher before the
\* survival matcher.
ChartBranchAgeFirst(user_query) ==
    LET q == Lower(user_query) IN
    IF Contains(KW_age, q)
            /\ (\/ Contains(KW_distribution, q)
                \/ Contains(KW_chart, q)
                \/ Contains(KW_histogram, q))
    THEN "age"
    ELSE IF Contains(KW_survival, q) /\ (Contains(KW_chart, q) \/ Contains(KW_plot, q))
    THEN "survival"
    ELSE IF (Contains(KW_class, q) \/ Contains(KW_pclass, q))
            /\ (Contains(KW_chart, q) \/ Contains(KW_bar, q))
    THEN "class"
    ELSE IF Contains(KW_gender, q) \/ Contains(KW_sex, q)
    THEN "gender"
    ELSE "generic"

\* The construction routine the matchers select for a query.
ChartBranch(user_query) ==
    LET q == Lower(user_query) IN
    IF Contains(KW_survival, q) /\ (Contains(KW_chart, q) \/ Contains(KW_plot, q))
    THEN "survival"
    ELSE IF Contains(KW_age, q)
            /\ (\/ Contains(KW_distribution, q)
                \/ Contains(KW_chart, q)
                \/ Contains(KW_histogram, q))
    THEN "age"
    ELSE IF (Contains(KW_class, q) \/ Contains(KW_pclass, q))
            /\ (Contains(KW_chart, q) \/ Contains(KW_bar, q))
    THEN "class"
    ELSE IF Contains(KW_gender, q) \/ Contains(KW_sex, q)
    THEN "gender"
    ELSE "generic"

\* The mutation of the chart path that takes the templates only while the
\* conversation has no earlier message.
GenerateChartResponseFirstMessage(df, user_query, conversation_history, env) ==
    LET branch == IF conversation_history = <<>> THEN ChartBranch(user_query)
                  ELSE "generic"
    IN
    CASE branch = "survival" -> _create_survival_chart_direct(df, env)
      [] branch = "age" -> _create_age_chart_direct(df, env)
      [] branch = "class" -> _create_class_chart_direct(df, env)
      [] branch = "gender" -> _create_gender_chart_direct(df, env)
      [] OTHER -> _generate_ai_chart(df, user_query, env)

_generate_chart_response(df, user_query, conversation_history, env) ==
    LET branch == ChartBranch(user_query) IN
    CASE branch = "survival" -> _create_survival_chart_direct(df, env)
      [] branch = "age" -> _create_age_chart_direct(df, env)
      [] branch = "class" -> _create_class_chart_direct(df, env)
      [] branch = "gender" -> _create_gender_chart_direct(df, env)
      [] OTHER -> _generate_ai_chart(df, user_query, env)

(***************************************************************************)
(* AIService._generate_text_response: the text path                        *)
(***************************************************************************)

\* conversation_history[-3:]
LastN(s, n) == SubSeq(s, Max(1, Len(s) - n + 1), Len(s))

IsLetter(c) == c \in DOMAIN UpperToLower \/ c \in {UpperToLower[u] : u \in DOMAIN UpperToLower}

UpperChar(c) ==
    IF \E u \in DOMAIN UpperToLower : UpperToLower[u] = c
    THEN CHOOSE u \in DOMAIN UpperToLower : UpperToLower[u] = c
    ELSE c

\* str.title(): a letter that follows a letter is lower-cased, any other
\* letter is upper-cased.
Title(s) ==
    [i \in 1..Len(s) |->
        IF i > 1 /\ IsLetter(s[i - 1]) THEN LowerChar(s[i]) ELSE UpperChar(s[i])]

\* The "Previous conversation" block of the prompt: "Role: content" for
\* the last three messages.
Context(conversation_history) ==
    LET last == LastN(conversation_history, 3) IN
    [k \in 1..Len(last) |-> <<Title(last[k].role), last[k].content>>]

\* AIService._get_dataframe_summary: shape, column list and, for the first
\* 15 columns, dtype, non-null count, null count and up to 3 sample values.
_get_dataframe_summary(df) ==
    [shape |-> <<NRows(df), NCols(df)>>,
     columns |-> df.columns,
     details |-> [j \in 1..Min(15, NCols(df)) |->
                    [dtype |-> Dtype(df, j),
                     non_null |-> NRows(df) - NullCount(df, j),
                     nulls |-> NullCount(df, j),
                     sample |-> HeadN(DropNa(Column(df, j)), 3)]]]

\* The prompt handed to the oracle.
Prompt(df, user_query, conversation_history) ==
    [df_info |-> _get_dataframe_summary(df),
     user_question |-> user_query,
     context |-> Context(conversation_history)]

Whitespace == {" ", "\n", "\t"}

\* str.strip()
RECURSIVE LStrip(_)
LStrip(s) ==
    IF s # <<>> /\ Head(s) \in Whitespace THEN LStrip(Tail(s)) ELSE s

RECURSIVE RStrip(_)
RStrip(s) ==
    IF s # <<>> /\ s[Len(s)] \in Whitespace
    THEN RStrip(SubSeq(s, 1, Len(s) - 1)) ELSE s

Strip(s) == RStrip(LStrip(s))

\* The oracle is called once with the prompt; env.answer is its completion,
\* and its failure (env.fault = "text") becomes the error payload.
_generate_text_response(df, user_query, conversation_history, env) ==
    IF env.fault = "text"
    THEN ErrorPayload(<<"Failed to generate text response", "exception">>)
    ELSE TextPayload([answer_to |-> Prompt(df, user_query, conversation_history),
                      text |-> Strip(env.answer)])

(***************************************************************************)
(* AIService.generate_chart: the router                                    *)
(***************************************************************************)

\* The mutation of generate_chart without its own try/except: an exception
\* of the intent detection propagates to the caller.
GenerateChartNoCatch(df, user_query, conversation_history, env) ==
    IF env.fault = "intent"
    THEN Raised("exception")
    ELSE IF _determine_user_intent(user_query) = "chart"
    THEN Returned(_generate_chart_response(df, user_query, conversation_history, env))
    ELSE Returned(_generate_text_response(df, user_query, conversation_history, env))

generate_chart(df, user_query, conversation_history, env) ==
    IF env.fault = "intent"
    THEN Returned(ErrorPayload(<<"Failed to process query", "exception">>))
    ELSE IF _determine_user_intent(user_query) = "chart"
    THEN Returned(_generate_chart_response(df, user_query, conversation_history, env))
    ELSE Returned(_generate_text_response(df, user_query, conversation_history, env))


(***************************************************************************)
(* TEMP_DIR: a set of <<file name, content>> pairs, one per file name      *)
(***************************************************************************)
FileNames(dir) == {f[1] : f \in dir}
Exists(dir, name) == name \in FileNames(dir)
ReadFile(dir, name) == (CHOOSE f \in dir : f[1] = name)[2]
Unlink(dir, names) == {f \in dir : f[1] \notin names}
WriteFile(dir, name, content) == Unlink(dir, {name}) \cup {<<name, content>>}

\* TEMP_DIR / f"{session_id}.pkl"
PklName(session_id) == session_id \o <<".", "p", "k", "l">>

\* TEMP_DIR / f"{session_id}_{file.filename}"
UploadName(session_id, filename) == session_id \o <<"_">> \o filename

\* fnmatch of one path component: "*" matches any run of characters, "?"
\* any one character, every other character itself.
RECURSIVE GlobMatch(_, _)
GlobMatch(pattern, name) ==
    IF pattern = <<>> THEN name = <<>>
    ELSE IF Head(pattern) = "*"
    THEN \/ GlobMatch(Tail(pattern), name)
         \/ name # <<>> /\ GlobMatch(pattern, Tail(name))
    ELSE IF Head(pattern) = "?"
    THEN name # <<>> /\ GlobMatch(Tail(pattern), Tail(name))
    ELSE /\ name # <<>>
         /\ Head(name) = Head(pattern)
         /\ GlobMatch(Tail(pattern), Tail(name))

\* filename.endswith(suffix)
EndsWith(s, suffix) ==
    /\ Len(s) >= Len(suffix)
    /\ SubSeq(s, Len(s) - Len(suffix) + 1, Len(s)) = suffix

EXT_csv == <<".", "c", "s", "v">>
EXT_xlsx == <<".", "x", "l", "s", "x">>
EXT_xls == <<".", "x", "l", "s">>

Http(status, detail) == [status |-> status, detail |-> detail, trace |-> <<>>]

(***************************************************************************)
(* main.chat_query                                                         *)
(***************************************************************************)

\* The mutation of the text path that calls the oracle a second time when
\* the first call fails.
RouterTraceRetry(user_query, env) ==
    IF env.fault # "intent" /\ _determine_user_intent(user_query) = "text"
    THEN IF env.fault = "text"
         THEN <<"generate_chart", "oracle", "oracle">>
         ELSE <<"generate_chart", "oracle">>
    ELSE <<"generate_chart">>

\* The collaborators one chat query invokes, in order.
RouterTrace(user_query, env) ==
    IF env.fault # "intent" /\ _determine_user_intent(user_query) = "text"
    THEN <<"generate_chart", "oracle">>
    ELSE <<"generate_chart">>

\* The mutation of chat_query without the df_path.exists() test: reading
\* the missing pickle raises, which the handler turns into its HTTP 500.
ChatQueryNoExistsTest(dir, session_id, user_query, conversation_history, env) ==
    LET df_path == PklName(session_id) IN
    IF ~Exists(dir, df_path)
    THEN [status |-> 500, detail |-> "Error processing query",
          trace |-> <<"read_pickle">>]
    ELSE LET df == ReadFile(dir, df_path)
             routed == generate_chart(df, user_query, conversation_history, env)
         IN  [status |-> 200, response |-> routed.value,
              trace |-> RouterTrace(user_query, env)]

\* The response of chat_query; the store is only read.
chat_query(dir, session_id, user_query, conversation_history, env) ==
    LET df_path == PklName(session_id) IN
    IF ~Exists(dir, df_path)
    THEN Http(404, "Session not found")
    ELSE LET df == ReadFile(dir, df_path)
             routed == generate_chart(df, user_query, conversation_history, env)
         IN  IF routed.raised
             THEN [status |-> 500, detail |-> "Error processing query",
                   trace |-> RouterTrace(user_query, env)]
             ELSE [status |-> 200, response |-> routed.value,
                   trace |-> RouterTrace(user_query, env)]

(***************************************************************************)
(* main.cleanup_session                                                    *)
(***************************************************************************)
DoubleStar(pattern) == Contains(<<"*", "*">>, pattern)

\* The mutation of cleanup_session that unlinks the pickle and leaves the
\* uploaded file.
CleanupRemovedPickleOnly(dir, session_id, env) ==
    {PklName(session_id)} \cap FileNames(dir)

\* The files cleanup_session removes: the session's pickle and, unless the
\* glob raises, every file that matches f"{session_id}_*".  A component that
\* holds "**" next to other characters makes Path.glob raise ValueError up
\* to Python 3.12 (env.glob = "strict"); later releases read it as "*".
CleanupRemoved(dir, session_id, env) ==
    LET pattern == session_id \o <<"_", "*">>
        pkl == {PklName(session_id)} \cap FileNames(dir)
    IN  IF DoubleStar(pattern) /\ env.glob = "strict"
        THEN pkl
        ELSE pkl \cup {n \in FileNames(dir) : GlobMatch(pattern, n)}

cleanup_response(session_id, env) ==
    IF DoubleStar(session_id \o <<"_", "*">>) /\ env.glob = "strict"
    THEN Http(500, "Cleanup error")
    ELSE [status |-> 200, message |-> "Session cleaned up successfully",
          trace |-> <<>>]


(***************************************************************************)
(* DataAnalyzer._generate_premium_charts: the chart catalogue              *)
(*                                                                         *)
(* A construction is the pair <<routine, column>> of a chart routine and   *)
(* the column it is called for (the empty name for the routines that take  *)
(* the whole table).  Every routine catches what it raises and returns     *)
(* None, which the catalogue leaves out.  failing is the set of            *)
(* constructions in which the plotting or grouping code raises.            *)
(***************************************************************************)
COL_Embarked == <<"E", "m", "b", "a", "r", "k", "e", "d">>
COL_SibSp == <<"S", "i", "b", "S", "p">>
COL_Parch == <<"P", "a", "r", "c", "h">>
COL_PassengerId == <<"P", "a", "s", "s", "e", "n", "g", "e", "r", "I", "d">>

max_categories == 15

\* df[col].nunique() and df[col].notna().sum()
nunique(df, j) == Cardinality(Values(df, j))
notna_sum(df, j) == NRows(df) - NullCount(df, j)

Whole(routine) == <<routine, <<>>>>

\* The column names the per-column loops skip.
HistogramSkipped ==
    {COL_Age, COL_Fare, COL_PassengerId, COL_Survived, COL_Pclass}
CategoricalSkipped == {COL_Sex, COL_Embarked}

\* The constructions _generate_premium_charts attempts, in order.
Attempts(df) ==
    LET When(cond, routine) == IF cond THEN <<Whole(routine)>> ELSE <<>>
        hist == SelectSeq(numeric_cols(df),
                    LAMBDA j : /\ df.columns[j] \notin HistogramSkipped
                               /\ notna_sum(df, j) > 0)
        cat == SelectSeq(categorical_cols(df),
                    LAMBDA j : /\ df.columns[j] \notin CategoricalSkipped
                               /\ nunique(df, j) <= max_categories
                               /\ nunique(df, j) > 1)
    IN  <<Whole("overview")>>
        \o When(HasColumn(df, COL_Survived) /\ HasColumn(df, COL_Pclass),
                "survival_analysis")
        \o When(HasColumn(df, COL_Age), "age_analysis")
        \o When(HasColumn(df, COL_Pclass), "class_analysis")
        \o When(HasColumn(df, COL_Sex), "gender_analysis")
        \o When(HasColumn(df, COL_Fare), "fare_analysis")
        \o When(HasColumn(df, COL_Embarked), "embarkation_analysis")
        \o When(HasColumn(df, COL_SibSp) /\ HasColumn(df, COL_Parch),
                "family_analysis")
        \o [k \in 1..Len(hist) |-> <<"histogram", df.columns[hist[k]]>>]
        \o [k \in 1..Len(cat) |-> <<"categorical", df.columns[cat[k]]>>]
        \o When(Len(numeric_cols(df)) >= 3, "correlation")

\* The construction raises: the overview computes the health score, which
\* raises on a table without cells; the other exceptions are failing's.
ConstructionRaises(df, attempt, failing) ==
    \/ attempt \in failing
    \/ attempt = Whole("overview") /\ _calculate_health_score(df).raised

\* The chart a construction returns, reduced to its type, its column and,
\* for the histograms, the series it is built over.
ChartOf(df, attempt) ==
    [type |-> attempt[1],
     column |-> attempt[2],
     x |-> CASE attempt[1] = "fare_analysis"
                    -> DropNa(Column(df, ColIdx(df, COL_Fare)))
             [] attempt[1] = "histogram"
                    -> DropNa(Column(df, ColIdx(df, attempt[2])))
             [] OTHER -> <<>>]

\* The mutation of the catalogue that stops at the first construction that
\* raises.
PremiumChartsStopAtFailure(df, failing) ==
    LET tried == Attempts(df)
        bad == {k \in 1..Len(tried) : ConstructionRaises(df, tried[k], failing)}
        upto == IF bad = {} THEN Len(tried)
                ELSE (CHOOSE k \in bad : \A m \in bad : k <= m) - 1
    IN  [k \in 1..upto |-> ChartOf(df, tried[k])]

_generate_premium_charts(df, failing) ==
    LET built == SelectSeq(Attempts(df),
                    LAMBDA a : ~ConstructionRaises(df, a, failing))
    IN  [k \in 1..Len(built) |-> ChartOf(df, built[k])]

(***************************************************************************)
(* DataAnalyzer.analyze_dataframe and main.initial_analysis                *)
(***************************************************************************)

\* The summary is generated first, then the catalogue (here with no
\* exception in the plotting code), the technical info last; the summary
\* and the info raise when the health score does.
analyze_dataframe(df) ==
    LET summary == _generate_summary(df)
        charts == _generate_premium_charts(df, {})
        dataframe_info == _get_dataframe_info(df)
    IN  IF summary.raised THEN summary
        ELSE IF dataframe_info.raised THEN dataframe_info
        ELSE Returned([summary |-> summary.value,
                       charts |-> charts,
                       dataframe_info |-> dataframe_info.value])

\* An uploaded buffer: csv text or an excel workbook holding a table, or
\* bytes that no parser accepts.
CsvFile(df) == [format |-> "csv", df |-> df]
ExcelFile(df) == [format |-> "excel", df |-> df]
Garbage == [format |-> "garbage"]

\* pd.read_csv for names ending in .csv, pd.read_excel otherwise.
ParseUpload(filename, content) ==
    LET parser == IF EndsWith(filename, EXT_csv) THEN "csv" ELSE "excel" IN
    IF content.format = parser THEN Returned(content.df)
    ELSE Raised("parse error")

AcceptedName(filename) ==
    \/ EndsWith(filename, EXT_csv)
    \/ EndsWith(filename, EXT_xlsx)
    \/ EndsWith(filename, EXT_xls)

\* open(TEMP_DIR / f"{session_id}_{file.filename}", "wb"): the client's file
\* name is used as it is, and a name with a "/" points into a directory
\* "{session_id}_..." that TEMP_DIR does not hold, so open raises
\* FileNotFoundError.
SaveFails(filename) == Contains(<<"/">>, filename)

\* TEMP_DIR after initial_analysis with the fresh session id.
UploadStore(dir, session_id, filename, content) ==
    LET saved == WriteFile(dir, UploadName(session_id, filename), content)
        parsed == ParseUpload(filename, content)
    IN  IF ~AcceptedName(filename) THEN dir
        ELSE IF SaveFails(filename) THEN dir
        ELSE IF parsed.raised THEN saved
        ELSE WriteFile(saved, PklName(session_id), parsed.value)

\* The response of initial_analysis.
UploadResponse(session_id, filename, content) ==
    LET parsed == ParseUpload(filename, content) IN
    IF ~AcceptedName(filename)
    THEN Http(400, "Only CSV and Excel files are supported")
    ELSE IF SaveFails(filename) THEN Http(500, "Internal server error")
    ELSE IF parsed.raised THEN Http(400, "Error reading file")
    ELSE LET analysis_result == analyze_dataframe(parsed.value) IN
         IF analysis_result.raised THEN Http(500, "Internal server error")
         ELSE [status |-> 200,
               session_id |-> session_id,
               summary |-> analysis_result.value.summary,
               charts |-> analysis_result.value.charts,
               dataframe_info |-> analysis_result.value.dataframe_info,
               trace |-> <<>>]

(***************************************************************************)
(* The template specification: the direct chart templates applied to       *)
(* parsed tables of at most MaxChartRows rows.                             *)
(***************************************************************************)
MaxChartRows == 3

COL_Name == <<"N", "a", "m", "e">>

ChartCells == {Null, Num(0), Num(1), Num(3), Str(1), Str(2)}
PairCells == {Null, Num(0), Num(1), Str(1)}

\* Tables of one column called Survived, Pclass or Name, and tables of the
\* two columns Pclass and Survived with one row less.
TemplateTables ==
    UNION {{ReadCsv(<<name>>, rows) : rows \in [1..r -> [1..1 -> ChartCells]]} :
            name \in {COL_Survived, COL_Pclass, COL_Name},
            r \in 0..MaxChartRows}
        \cup UNION {{ReadCsv(<<COL_Pclass, COL_Survived>>, rows) :
                        rows \in [1..r -> [1..2 -> PairCells]]} :
                    r \in 0..(MaxChartRows - 1)}

TemplateEnvs ==
    [fault : {"none", "chart"}, get_int : {"label", "position"}]

InitTemplates ==
    /\ temp_dir = {}
    /\ issued = {}
    /\ request \in {[op |-> "template", df |-> t, env |-> e] :
                        t \in TemplateTables, e \in TemplateEnvs}
    /\ response = NoResponse

CreateSurvivalChartDirect ==
    /\ request.op = "template"
    /\ response = NoResponse
    /\ response' = [kind |-> "survival",
                    payload |-> _create_survival_chart_direct(request.df, request.env)]
    /\ UNCHANGED <<store, request>>

CreateClassChartDirect ==
    /\ request.op = "template"
    /\ response = NoResponse
    /\ response' = [kind |-> "class",
                    payload |-> _create_class_chart_direct(request.df, request.env)]
    /\ UNCHANGED <<store, request>>

NextTemplates ==
    \/ CreateSurvivalChartDirect
    \/ CreateClassChartDirect

SpecTemplates == InitTemplates /\ [][NextTemplates]_vars

IsChartPayload(payload) == DOMAIN payload = {"type", "chart_json"}
IsErrorPayload(payload) == DOMAIN payload = {"error"}
IsTextPayload(payload) == DOMAIN payload = {"type", "text_response"}

\* The number of rows whose value in column j is the number n; the cells of
\* an object column are text, which no number equals.
RowsWithNumber(df, j, n) ==
    IF Dtype(df, j) = "number" THEN Count(df, j, Num(n)) ELSE 0

\* C9 as stated: for every table with a Survived column the survival pie has
\* the labels "Did not survive", "Survived" and the values [rows with
\* Survived = 0, rows with Survived = 1], in that order (no exception raised).
C9_Original ==
    (/\ request.op = "template"
     /\ response.kind = "survival"
     /\ HasColumn(request.df, COL_Survived)
     /\ request.env.fault = "none")
        => /\ IsChartPayload(response.payload)
           /\ response.payload.chart_json.labels
                = <<"Did not survive", "Survived">>
           /\ response.payload.chart_json.values
                = <<RowsWithNumber(request.df, ColIdx(request.df, COL_Survived), 0),
                    RowsWithNumber(request.df, ColIdx(request.df, COL_Survived), 1)>>

\* The categories of a class bar chart, without the "Class" prefix.
ClassCategories(chart) == [k \in 1..Len(chart.x) |-> chart.x[k][2]]

\* C10: the class bar chart has one bar per distinct non-null Pclass value,
\* in ascending order of the value, each as high as the number of rows that
\* hold the value.
C10_ClassBarsAscending ==
    (/\ request.op = "template"
     /\ response.kind = "class"
     /\ HasColumn(request.df, COL_Pclass)
     /\ request.env.fault = "none")
        => /\ IsChartPayload(response.payload)
           /\ LET chart == response.payload.chart_json
                  cats == ClassCategories(chart)
                  j == ColIdx(request.df, COL_Pclass)
              IN  /\ chart.type = "bar"
                  /\ {cats[k] : k \in 1..Len(cats)} = Values(request.df, j)
                  /\ Len(cats) = Cardinality(Values(request.df, j))
                  /\ Len(chart.y) = Len(cats)
                  /\ \A k \in 1..Len(cats) :
                        chart.y[k] = Count(request.df, j, cats[k])
                  /\ \A k, m \in 1..Len(cats) :
                        k < m => CellLess(cats[k], cats[m])

\* C10 witness: a chart of three bars for a Pclass column whose rows hold
\* the classes in descending order.
C10_Witness ==
    /\ request.op = "template"
    /\ response.kind = "class"
    /\ request.df.columns = <<COL_Pclass>>
    /\ request.df.rows = <<<<Num(3)>>, <<Num(1)>>, <<Num(0)>>>>
    /\ IsChartPayload(response.payload)
    /\ ClassCategories(response.payload.chart_json) = <<Num(0), Num(1), Num(3)>>
    /\ response.payload.chart_json.y = <<1, 1, 1>>

(***************************************************************************)
(* The router specification: chat_query applied once to a session whose    *)
(* table, query, conversation history and surroundings are drawn from the  *)
(* sets below.                                                             *)
(***************************************************************************)

UUID_a1 == <<"a", "1">>
UUID_b2 == <<"b", "2">>
UUID_c3 == <<"c", "3">>
UUID_d4 == <<"d", "4">>
FILE_d_csv == <<"d", ".", "c", "s", "v">>
FILE_d_txt == <<"d", ".", "t", "x", "t">>

\* A passenger manifest: Survived, Pclass, Sex, Age.
TitanicTable ==
    ReadCsv(<<COL_Survived, COL_Pclass, COL_Sex, COL_Age>>,
            << <<Num(0), Num(3), Str(2), Num(22)>>,
               <<Num(1), Num(1), Str(1), Null>>,
               <<Num(0), Num(3), Str(2), Num(35)>> >>)

\* A table with none of the manifest columns.
PlainTable ==
    ReadCsv(<<COL_Name, COL_Fare>>,
            << <<Str(1), Num(7)>>, <<Str(2), Null>>, <<Str(1), Num(7)>> >>)

\* A file with a header and no row.
HeaderOnlyTable == ReadCsv(<<COL_Name>>, <<>>)

\* A table without a categorical column.
NumericTable == ReadCsv(<<COL_Fare, COL_Age>>, << <<Num(7), Num(1)>>, <<Null, Num(3)>> >>)

\* A manifest whose Survived column holds text.
TextSurvivedTable ==
    ReadCsv(<<COL_Survived, COL_Sex>>,
            << <<Str(3), Str(2)>>, <<Str(3), Str(1)>>, <<Str(4), Null>> >>)

RouterTables ==
    {TitanicTable, PlainTable, HeaderOnlyTable, NumericTable, TextSurvivedTable}

RouterQueries ==
    { <<"s", "u", "r", "v", "i", "v", "a", "l", " ", "c", "h", "a", "r", "t">>,
      <<"P", "l", "o", "t", " ", "s", "u", "r", "v", "i", "v", "a", "l", " ", "b", "y", " ", "c", "l", "a", "s", "s">>,
      <<"S", "h", "o", "w", " ", "m", "e", " ", "a", " ", "h", "i", "s", "t", "o", "g", "r", "a", "m", " ", "o", "f", " ", "A", "g", "e">>,
      <<"a", "g", "e", " ", "c", "h", "a", "r", "t", " ", "o", "f", " ", "s", "u", "r", "v", "i", "v", "a", "l">>,
      <<"d", "r", "a", "w", " ", "c", "l", "a", "s", "s", " ", "b", "a", "r">>,
      <<"c", "h", "a", "r", "t", " ", "o", "f", " ", "p", "c", "l", "a", "s", "s">>,
      <<"v", "i", "s", "u", "a", "l", "i", "z", "e", " ", "g", "e", "n", "d", "e", "r">>,
      <<"g", "r", "a", "p", "h", " ", "b", "y", " ", "s", "e", "x">>,
      <<"h", "i", "s", "t", "o", "g", "r", "a", "m", " ", "o", "f", " ", "f", "a", "r", "e">>,
      <<"p", "l", "o", "t", " ", "d", "i", "s", "t", "r", "i", "b", "u", "t", "i", "o", "n">>,
      <<"b", "a", "r", " ", "c", "h", "a", "r", "t", " ", "o", "f", " ", "n", "a", "m", "e">>,
      <<"c", "r", "e", "a", "t", "e", " ", "c", "o", "u", "n", "t", " ", "p", "l", "o", "t">>,
      <<"d", "r", "a", "w", " ", "s", "o", "m", "e", "t", "h", "i", "n", "g">>,
      <<"p", "a", "s", "s", "a", "g", "e", " ", "c", "h", "a", "r", "t">>,
      <<"w", "h", "a", "t", " ", "i", "s", " ", "t", "h", "e", " ", "a", "v", "e", "r", "a", "g", "e", " ", "a", "g", "e">>,
      <<"h", "e", "l", "l", "o">>,
      <<"h", "o", "w", " ", "m", "a", "n", "y", " ", "s", "u", "r", "v", "i", "v", "e", "d">> }

Message(role, content) == [role |-> role, content |-> content]

MSG_user == Message(<<"u", "s", "e", "r">>, <<"h", "i">>)
MSG_assistant == Message(<<"a", "s", "s", "i", "s", "t", "a", "n", "t">>, <<"o", "k">>)

Histories ==
    {<<>>, <<MSG_user>>, <<MSG_user, MSG_assistant, MSG_user, MSG_assistant>>}

Faults == {"none", "intent", "text", "chart"}

RouterEnvs ==
    [fault : Faults,
     get_int : {"label", "position"},
     glob : {"strict"},
     answer : {<<" ", "4", "2", "\n">>}]

ChatRequest(session_id, user_query, conversation_history, env) ==
    [op |-> "chat", session_id |-> session_id, user_query |-> user_query,
     conversation_history |-> conversation_history, env |-> env]

\* Session a1 holds the table; one chat query on it is about to be served.
InitRouter ==
    /\ \E df \in RouterTables :
        temp_dir = {<<PklName(UUID_a1), df>>,
                    <<UploadName(UUID_a1, FILE_d_csv), CsvFile(df)>>}
    /\ issued = {UUID_a1}
    /\ request \in {ChatRequest(UUID_a1, q, h, e) :
                        q \in RouterQueries, h \in Histories, e \in RouterEnvs}
    /\ response = NoResponse

\* main.chat_query serves the pending request.
ServeChatQuery ==
    /\ request.op = "chat"
    /\ response = NoResponse
    /\ response' = chat_query(temp_dir, request.session_id, request.user_query,
                              request.conversation_history, request.env)
    /\ UNCHANGED <<store, request>>

NextRouter == ServeChatQuery

SpecRouter == InitRouter /\ [][NextRouter]_vars

ChatServed == request.op = "chat" /\ response # NoResponse

\* The three shapes of a router result.
IsTextAnswer(payload) ==
    IsTextPayload(payload) /\ payload.type = "text"
IsChartAnswer(payload) ==
    IsChartPayload(payload) /\ payload.type = "chart"
IsErrorAnswer(payload) ==
    IsErrorPayload(payload) /\ Len(payload.error) >= 1

\* The query selects a direct template whose column the table lacks.
MissingTemplateColumn(df, user_query) ==
    /\ _determine_user_intent(user_query) = "chart"
    /\ LET col == [survival |-> COL_Survived, age |-> COL_Age,
                   class |-> COL_Pclass, gender |-> COL_Sex]
           branch == ChartBranch(user_query)
       IN  branch # "generic" /\ ~HasColumn(df, col[branch])

\* An exception is raised while the query is served: in the intent detection,
\* in the text path, or in the chart routine the query selects.
ExceptionRaised(user_query, env) ==
    \/ env.fault = "intent"
    \/ env.fault = "text" /\ _determine_user_intent(user_query) = "text"
    \/ env.fault = "chart" /\ _determine_user_intent(user_query) = "chart"

\* C3: for every query, table, history and exception raised on the way, the
\* router returns (never raises) a text answer, a chart payload or an error
\* payload, so the chat query on an existing session is answered with a
\* response object, and with an error payload when the column is missing.
C3_RouterAlwaysAnswers ==
    (ChatServed /\ Exists(temp_dir, PklName(request.session_id)))
        => /\ response.status = 200
           /\ \/ IsTextAnswer(response.response)
              \/ IsChartAnswer(response.response)
              \/ IsErrorAnswer(response.response)
           /\ ExceptionRaised(request.user_query, request.env)
                => IsErrorAnswer(response.response)
           /\ MissingTemplateColumn(ReadFile(temp_dir, PklName(request.session_id)),
                                    request.user_query)
                => IsErrorAnswer(response.response)

\* C3 witness: a survival chart was asked of a table without a Survived
\* column, nothing was raised, and an error payload was returned.
C3_Witness ==
    /\ ChatServed
    /\ request.env.fault = "none"
    /\ ChartBranch(request.user_query) = "survival"
    /\ MissingTemplateColumn(ReadFile(temp_dir, PklName(request.session_id)),
                             request.user_query)
    /\ response.status = 200
    /\ IsErrorAnswer(response.response)

(***************************************************************************)
(* The server specification: uploads, chat queries and cleanups in any     *)
(* order, with at most MaxUploads uploads.                                 *)
(***************************************************************************)
MaxUploads == 2

\* uuid4 never repeats; the ids are taken from this list in order.
UuidPool == <<UUID_a1, UUID_b2, UUID_c3, UUID_d4>>

\* The session ids a caller passes: the uuids, of which the last is never
\* issued, and strings that are glob patterns.
SessionArgs ==
    {UuidPool[k] : k \in DOMAIN UuidPool}
        \cup {<<"*">>, <<"*", "*">>, <<"a", "?">>}

FILE_x_d_csv == <<"x", "/", "d", ".", "c", "s", "v">>

UploadNames == {FILE_d_csv, FILE_d_txt, FILE_x_d_csv}
UploadContents == {CsvFile(TitanicTable), CsvFile(HeaderOnlyTable), Garbage}

ServerQueries ==
    { <<"s", "u", "r", "v", "i", "v", "a", "l", " ", "c", "h", "a", "r", "t">>,
      <<"w", "h", "a", "t", " ", "i", "s", " ", "t", "h", "e", " ", "a", "v", "e", "r", "a", "g", "e", " ", "a", "g", "e">> }

ChatEnvs ==
    [fault : {"none", "text"},
     get_int : {"label"},
     glob : {"strict"},
     answer : {<<" ", "4", "2", "\n">>}]

CleanupEnvs ==
    [fault : {"none"},
     get_int : {"label"},
     glob : {"strict", "star"},
     answer : {<<>>}]

Init ==
    /\ temp_dir = {}
    /\ issued = {}
    /\ request = [op |-> "none"]
    /\ response = NoResponse

\* main.initial_analysis
InitialAnalysis ==
    /\ Cardinality(issued) < MaxUploads
    /\ Cardinality(issued) < Len(UuidPool) - 1
    /\ \E filename \in UploadNames, content \in UploadContents :
        LET session_id == UuidPool[Cardinality(issued) + 1] IN
        /\ issued' = issued \cup {session_id}
        /\ temp_dir' = UploadStore(temp_dir, session_id, filename, content)
        /\ request' = [op |-> "upload", filename |-> filename,
                       content |-> content]
        /\ response' = UploadResponse(session_id, filename, content)

\* main.chat_query
ChatQuery ==
    \E session_id \in SessionArgs, q \in ServerQueries, e \in ChatEnvs :
        /\ request' = ChatRequest(session_id, q, <<MSG_user>>, e)
        /\ response' = chat_query(temp_dir, session_id, q, <<MSG_user>>, e)
        /\ UNCHANGED store

\* main.cleanup_session
CleanupSession ==
    \E session_id \in SessionArgs, e \in CleanupEnvs :
        /\ temp_dir' = Unlink(temp_dir, CleanupRemoved(temp_dir, session_id, e))
        /\ request' = [op |-> "cleanup", session_id |-> session_id, env |-> e]
        /\ response' = cleanup_response(session_id, e)
        /\ UNCHANGED issued

Next ==
    \/ InitialAnalysis
    \/ ChatQuery
    \/ CleanupSession

Spec == Init /\ [][Next]_vars

C5_Original ==
    request.op = "cleanup"
        => /\ response.status = 200
           /\ \A e \in CleanupEnvs :
                CleanupRemoved(temp_dir, request.session_id, e) = {}

(***************************************************************************)
(* The chart-path specification: _generate_chart_response and the generic  *)
(* fallback _generate_ai_chart applied once to a table, a query and a      *)
(* conversation history drawn from the sets below.                         *)
(***************************************************************************)
MaxPathRows == 2

PathCells == {Null, Num(1), Str(1)}

\* An excerpt of the manifest with the columns Age and Fare.
AgeFareTable ==
    ReadCsv(<<COL_Age, COL_Fare>>,
            << <<Num(22), Num(7)>>, <<Null, Num(8)>>, <<Num(35), Null>>,
               <<Num(4), Num(7)>> >>)

\* A table of one text column with eleven distinct values, the last of
\* them held by two rows.
ManyNamesTable ==
    ReadCsv(<<COL_Name>>,
            [i \in 1..12 |-> <<Str(IF i = 12 THEN 11 ELSE i)>>])

PathHeaders ==
    {<<COL_Age, COL_Fare>>, <<COL_Name, COL_Age>>, <<COL_Name, COL_Sex>>,
     <<COL_Fare>>, <<COL_Name>>}

\* The fixed tables and every table of at most MaxPathRows rows under one of
\* the headers.
PathTables ==
    RouterTables \cup {AgeFareTable, ManyNamesTable}
        \cup UNION {{ReadCsv(h, rows) :
                        rows \in [1..r -> [1..Len(h) -> PathCells]]} :
                    h \in PathHeaders, r \in 0..MaxPathRows}

PathQueries ==
    RouterQueries \cup
    { <<"c", "o", "u", "n", "t", " ", "b", "y", " ", "s", "e", "x">>,
      <<"h", "i", "s", "t", "o", "g", "r", "a", "m", " ", "b", "a", "r">>,
      <<"d", "i", "s", "t", "r", "i", "b", "u", "t", "i", "o", "n", " ", "o", "f", " ", "a", "g", "e">>,
      <<"h", "i", "s", "t", "o", "g", "r", "a", "m", " ", "f", "a", "r", "e", " ", "a", "g", "e">>,
      <<"H", "i", "s", "t", "o", "g", "r", "a", "m">> }

PathHistories == {<<>>, <<MSG_user, MSG_assistant>>}

PathEnvs ==
    [fault : {"none", "chart"},
     get_int : {"label"},
     glob : {"strict"},
     answer : {<<>>}]

InitCharts ==
    /\ temp_dir = {}
    /\ issued = {}
    /\ request \in {[op |-> "chartpath", df |-> t, user_query |-> q,
                     conversation_history |-> h, env |-> e] :
                        t \in PathTables, q \in PathQueries,
                        h \in PathHistories, e \in PathEnvs}
    /\ response = NoResponse

\* AIService._generate_chart_response serves the pending request.
GenerateChartResponse ==
    /\ request.op = "chartpath"
    /\ response = NoResponse
    /\ response' = [kind |-> "chart_response",
                    payload |-> _generate_chart_response(
                                    request.df, request.user_query,
                                    request.conversation_history, request.env)]
    /\ UNCHANGED <<store, request>>

\* AIService._generate_ai_chart serves the pending request.
GenerateAiChart ==
    /\ request.op = "chartpath"
    /\ response = NoResponse
    /\ response' = [kind |-> "ai_chart",
                    payload |-> _generate_ai_chart(
                                    request.df, request.user_query, request.env)]
    /\ UNCHANGED <<store, request>>

NextCharts ==
    \/ GenerateChartResponse
    \/ GenerateAiChart

SpecCharts == InitCharts /\ [][NextCharts]_vars

ChartResponseGiven ==
    request.op = "chartpath" /\ response.kind = "chart_response"

AiChartGiven ==
    request.op = "chartpath" /\ response.kind = "ai_chart"

\* The non-null cells of a column, in row order.
NonNullInRowOrder(df, j) == SelectSeq(Column(df, j), LAMBDA c : ~IsNull(c))

\* The matchers as the queries are described: on the lower-cased query.
MentionsSurvival(q) ==
    Contains(KW_survival, Lower(q))
        /\ (Contains(KW_chart, Lower(q)) \/ Contains(KW_plot, Lower(q)))

MentionsAge(q) ==
    Contains(KW_age, Lower(q))
        /\ (\/ Contains(KW_distribution, Lower(q))
            \/ Contains(KW_chart, Lower(q))
            \/ Contains(KW_histogram, Lower(q)))

MentionsClass(q) ==
    (Contains(KW_class, Lower(q)) \/ Contains(KW_pclass, Lower(q)))
        /\ (Contains(KW_chart, Lower(q)) \/ Contains(KW_bar, Lower(q)))

MentionsGender(q) ==
    Contains(KW_gender, Lower(q)) \/ Contains(KW_sex, Lower(q))

\* C11: a query with 'age' and one of 'distribution', 'chart', 'histogram'
\* that is not a survival query is served by the age template: with an Age
\* column the result is the age histogram (30 bins, "Age Distribution") over
\* the non-null Age values in row order, without one it is the age
\* template's error; it is never a chart of the generic fallback.
C11_AgeTemplateChosen ==
    (/\ ChartResponseGiven
     /\ MentionsAge(request.user_query)
     /\ ~MentionsSurvival(request.user_query)
     /\ request.env.fault = "none")
        => IF HasColumn(request.df, COL_Age)
           THEN /\ IsChartPayload(response.payload)
                /\ response.payload.chart_json.type = "histogram"
                /\ response.payload.chart_json.title = <<"Age Distribution">>
                /\ response.payload.chart_json.nbinsx = 30
                /\ response.payload.chart_json.x
                    = NonNullInRowOrder(request.df,
                                        ColIdx(request.df, COL_Age))
           ELSE response.payload
                    = ErrorPayload(<<"Age data not found in this dataset">>)

\* C11 witness: "Show me a histogram of Age" on the table with the columns
\* Age and Fare gave the age histogram over the three non-null ages.
C11_Witness ==
    /\ ChartResponseGiven
    /\ request.user_query = <<"S", "h", "o", "w", " ", "m", "e", " ", "a", " ", "h", "i", "s", "t", "o", "g", "r", "a", "m", " ", "o", "f", " ", "A", "g", "e">>
    /\ request.df = AgeFareTable
    /\ IsChartPayload(response.payload)
    /\ response.payload.chart_json.title = <<"Age Distribution">>
    /\ response.payload.chart_json.x = <<Num(22), Num(35), Num(4)>>

(***************************************************************************)
(* The catalogue specification: the catalogue generated once for a parsed  *)
(* table of at most MaxCatalogueRows rows.                                 *)
(***************************************************************************)
MaxCatalogueRows == 2

CatalogueCells == {Null, Num(1), Str(1)}

\* A listing whose Fare column is empty in every row.
NullFareTable ==
    ReadCsv(<<COL_Name, COL_Fare>>,
            << <<Str(1), Null>>, <<Str(2), Null>> >>)

CatalogueHeaders ==
    {<<COL_Name, COL_Fare>>, <<COL_SibSp, COL_Parch>>,
     <<COL_Fare, COL_SibSp, COL_Parch>>, <<COL_Survived, COL_Pclass>>,
     <<COL_Sex, COL_Embarked>>, <<COL_Name>>, <<COL_PassengerId, COL_Name>>}

CatalogueTables ==
    {TitanicTable, PlainTable, HeaderOnlyTable, NumericTable, AgeFareTable,
     NullFareTable, ManyNamesTable, ReadCsv(<<>>, <<>>)}
        \cup UNION {{ReadCsv(h, rows) :
                        rows \in [1..r -> [1..Len(h) -> CatalogueCells]]} :
                    h \in CatalogueHeaders, r \in 0..MaxCatalogueRows}

\* No construction raises, one does, or the first and the last do.
FailingChoices(df) ==
    LET tried == Attempts(df) IN
    {{}} \cup {{tried[k]} : k \in 1..Len(tried)}
         \cup {{tried[1], tried[Len(tried)]}}

InitCatalogue ==
    /\ temp_dir = {}
    /\ issued = {}
    /\ request \in UNION {{[op |-> "catalogue", df |-> t, failing |-> f] :
                                f \in FailingChoices(t)} :
                          t \in CatalogueTables}
    /\ response = NoResponse

\* DataAnalyzer._generate_premium_charts serves the pending request.
GeneratePremiumCharts ==
    /\ request.op = "catalogue"
    /\ response = NoResponse
    /\ response' = [kind |-> "charts",
                    charts |-> _generate_premium_charts(request.df,
                                                        request.failing)]
    /\ UNCHANGED <<store, request>>

NextCatalogue == GeneratePremiumCharts

SpecCatalogue == InitCatalogue /\ [][NextCatalogue]_vars

CatalogueGiven == request.op = "catalogue" /\ response.kind = "charts"

\* The chart is a histogram over the column called name: the plain
\* histogram of the column, or the fare histogram for the column Fare.
HistogramOver(chart, name) ==
    \/ chart.type = "histogram" /\ chart.column = name
    \/ chart.type = "fare_analysis" /\ name = COL_Fare

\* C12 as stated: the catalogue holds no histogram, plain or fare, over a
\* numeric column whose non-null count is 0.
C12_Original ==
    CatalogueGiven
        => \A k \in 1..Len(response.charts), j \in 1..NCols(request.df) :
              (/\ Dtype(request.df, j) = "number"
               /\ notna_sum(request.df, j) = 0)
                  => ~HistogramOver(response.charts[k], request.df.columns[j])

\* The catalogue without the charts of the constructions in failing.
WithoutCharts(charts, failing) ==
    SelectSeq(charts, LAMBDA c : <<c.type, c.column>> \notin failing)

\* C13: when constructions raise, the catalogue is still returned and is the
\* catalogue of the same table with no such exception, less the charts of
\* the raising constructions, in the same order.
C13_FaultIsolatedPerChart ==
    CatalogueGiven
        => response.charts
            = WithoutCharts(_generate_premium_charts(request.df, {}),
                            request.failing)

\* C13 witness: one construction raised, and the catalogue holds a chart
\* built before it and a chart built after it.
C13_Witness ==
    /\ CatalogueGiven
    /\ Cardinality(request.failing) = 1
    /\ LET tried == Attempts(request.df)
           Built(a) == \E n \in 1..Len(response.charts) :
                            <<response.charts[n].type,
                              response.charts[n].column>> = a
       IN  \E i, j, k \in 1..Len(tried) :
              /\ i < j /\ j < k
              /\ tried[j] \in request.failing
              /\ ~Built(tried[j])
              /\ Built(tried[i])
              /\ Built(tried[k])

UploadServed == request.op = "upload"

\* The response carries neither a session id nor an initial report.
NoReport == DOMAIN response \cap {"session_id", "summary", "dataframe_info"} = {}

\* The buffer cannot be parsed by the parser the file name selects.
Unparseable(filename, content) == ParseUpload(filename, content).raised

\* C14, for the file names without an accepted extension: the upload is
\* answered with HTTP 400 "Only CSV and Excel files are supported" and
\* without a session id or report.
C14_UnsupportedFormat ==
    (UploadServed /\ ~AcceptedName(request.filename))
        => /\ response.status = 400
           /\ response.detail = "Only CSV and Excel files are supported"
           /\ NoReport

\* C14 as stated: an upload with a name without csv or excel extension is
\* answered with HTTP 400 (unsupported format), an upload with an accepted
\* extension whose buffer cannot be parsed with HTTP 400 "Error reading
\* file"; neither returns a session id or a report.
C14_Original ==
    /\ C14_UnsupportedFormat
    /\ (UploadServed /\ AcceptedName(request.filename)
            /\ Unparseable(request.filename, request.content))
            => /\ response.status = 400
               /\ response.detail = "Error reading file"
               /\ NoReport

\* What each construction routine returns: its chart title, its
\* missing-column message or the message of its exception handler.
RoutineTitles ==
    [survival |-> <<"Passenger Survival Distribution">>,
     age |-> <<"Age Distribution">>,
     class |-> <<"Passenger Class Distribution">>,
     gender |-> <<"Gender Distribution">>]

RoutineMissing ==
    [survival |-> <<"Survival data not found in this dataset">>,
     age |-> <<"Age data not found in this dataset">>,
     class |-> <<"Passenger class data not found in this dataset">>,
     gender |-> <<"Gender data not found in this dataset">>]

RoutineFailed ==
    [survival |-> <<"Failed to create survival chart", "exception">>,
     age |-> <<"Failed to create age chart", "exception">>,
     class |-> <<"Failed to create class chart", "exception">>,
     gender |-> <<"Failed to create gender chart", "exception">>]

Routines == {"survival", "age", "class", "gender", "generic"}

\* The payload is one that the routine returns for the table.
ReturnedBy(routine, payload, df) ==
    IF routine = "generic"
    THEN \/ payload = ErrorPayload(
                <<"Could not determine what chart to create from your request">>)
         \/ payload = ErrorPayload(<<"Failed to generate chart", "exception">>)
         \/ /\ IsChartPayload(payload)
            /\ \E j \in 1..NCols(df) :
                  payload.chart_json.title = <<"Distribution of", df.columns[j]>>
    ELSE \/ payload = ErrorPayload(RoutineMissing[routine])
         \/ payload = ErrorPayload(RoutineFailed[routine])
         \/ /\ IsChartPayload(payload)
            /\ payload.chart_json.title = RoutineTitles[routine]

\* The first matcher, in the order survival, age, class, gender, that the
\* query satisfies, or the generic fallback.
FirstMatcher(q) ==
    IF MentionsSurvival(q) THEN "survival"
    ELSE IF MentionsAge(q) THEN "age"
    ELSE IF MentionsClass(q) THEN "class"
    ELSE IF MentionsGender(q) THEN "gender"
    ELSE "generic"

\* C15: the result of the chart path is what the routine of the first
\* matcher that holds (or the generic fallback) returns, and what no other
\* routine returns.
C15_FirstMatcherServes ==
    ChartResponseGiven
        => \A routine \in Routines :
              ReturnedBy(routine, response.payload, request.df)
                  <=> routine = FirstMatcher(request.user_query)

\* C15 witness: "age chart of survival" satisfies the survival and the age
\* matcher and was served by the survival routine, with a chart.
C15_Witness ==
    /\ ChartResponseGiven
    /\ MentionsSurvival(request.user_query)
    /\ MentionsAge(request.user_query)
    /\ HasColumn(request.df, COL_Age)
    /\ IsChartPayload(response.payload)
    /\ ReturnedBy("survival", response.payload, request.df)
    /\ ~ReturnedBy("age", response.payload, request.df)

\* The column each direct template requires.
RequiredColumn ==
    [survival |-> COL_Survived, age |-> COL_Age,
     class |-> COL_Pclass, gender |-> COL_Sex]

\* The query selects a direct template whose column the table lacks.
TemplateColumnMissing(df, q) ==
    /\ FirstMatcher(q) # "generic"
    /\ ~HasColumn(df, RequiredColumn[FirstMatcher(q)])

\* C16: when the selected direct template lacks its column, the chart path
\* returns the template's error payload, which names the missing data,
\* whatever the later matchers and the generic fallback would give.
C16_MissingColumnIsError ==
    (ChartResponseGiven
        /\ TemplateColumnMissing(request.df, request.user_query))
        => response.payload
            = ErrorPayload(RoutineMissing[FirstMatcher(request.user_query)])

\* C16 witness: a gender chart was asked of a table without a Sex column,
\* for which the generic fallback gives a chart; the answer is the error.
C16_Witness ==
    /\ ChartResponseGiven
    /\ FirstMatcher(request.user_query) = "gender"
    /\ ~HasColumn(request.df, COL_Sex)
    /\ IsChartPayload(_generate_ai_chart(request.df, request.user_query,
                                         request.env))
    /\ response.payload
        = ErrorPayload(<<"Gender data not found in this dataset">>)

\* The query mentions 'histogram' or 'distribution'; it mentions 'bar' or
\* 'count' and neither of those.
HistogramQuery(q) ==
    Contains(KW_histogram, Lower(q)) \/ Contains(KW_distribution, Lower(q))

BarQuery(q) ==
    /\ ~HistogramQuery(q)
    /\ Contains(KW_bar, Lower(q)) \/ Contains(<<"c", "o", "u", "n", "t">>, Lower(q))

\* C17 as stated: in the generic fallback a 'histogram'/'distribution'
\* query on a table without a numeric column gives an error payload and no
\* bar chart, and a 'bar'/'count' query on a table without a categorical
\* column gives an error payload.
C17_Original ==
    AiChartGiven
        => /\ (HistogramQuery(request.user_query)
                    /\ Len(numeric_cols(request.df)) = 0)
                => IsErrorPayload(response.payload)
           /\ (BarQuery(request.user_query)
                    /\ Len(categorical_cols(request.df)) = 0)
                => IsErrorPayload(response.payload)

\* The column the fallback is to chart: among the columns idxs (positions in
\* table order) the first whose lower-cased name is part of the lower-cased
\* query, or the first of all when none is.
NamedInQuery(df, j, q) == Contains(Lower(df.columns[j]), Lower(q))

ChosenColumn(df, idxs, q) ==
    IF \E k \in 1..Len(idxs) : NamedInQuery(df, idxs[k], q)
    THEN idxs[CHOOSE k \in 1..Len(idxs) :
                /\ NamedInQuery(df, idxs[k], q)
                /\ \A m \in 1..(k - 1) : ~NamedInQuery(df, idxs[m], q)]
    ELSE idxs[1]

\* The bars are the (at most ten) most frequent values of column j with
\* their counts, most frequent first.
TopTenOf(chart, df, j) ==
    /\ Len(chart.x) = Min(10, Cardinality(Values(df, j)))
    /\ Len(chart.y) = Len(chart.x)
    /\ \A k \in 1..Len(chart.x) :
          /\ chart.x[k] \in Values(df, j)
          /\ chart.y[k] = Count(df, j, chart.x[k])
          /\ \A n \in 1..(k - 1) :
                chart.x[n] # chart.x[k] /\ chart.y[n] >= chart.y[k]
          /\ \A v \in Values(df, j) \ {chart.x[n] : n \in 1..Len(chart.x)} :
                Count(df, j, v) <= chart.y[k]

\* C18: in the generic fallback a 'histogram'/'distribution' query charts,
\* as a histogram over its non-null values, the first numeric column named
\* in the query or else the first numeric column; a 'bar'/'count' query that
\* is no such query charts, as a bar chart of its at most ten most frequent
\* values, the categorical column chosen in the same way.
C18_FallbackColumnChoice ==
    (AiChartGiven /\ request.env.fault = "none")
        => /\ (HistogramQuery(request.user_query)
                    /\ Len(numeric_cols(request.df)) > 0)
                => LET j == ChosenColumn(request.df, numeric_cols(request.df),
                                         request.user_query)
                   IN  /\ IsChartPayload(response.payload)
                       /\ response.payload.chart_json.type = "histogram"
                       /\ response.payload.chart_json.title
                            = <<"Distribution of", request.df.columns[j]>>
                       /\ response.payload.chart_json.x
                            = NonNullInRowOrder(request.df, j)
           /\ (BarQuery(request.user_query)
                    /\ Len(categorical_cols(request.df)) > 0)
                => LET j == ChosenColumn(request.df,
                                         categorical_cols(request.df),
                                         request.user_query)
                   IN  /\ IsChartPayload(response.payload)
                       /\ response.payload.chart_json.type = "bar"
                       /\ response.payload.chart_json.title
                            = <<"Distribution of", request.df.columns[j]>>
                       /\ TopTenOf(response.payload.chart_json, request.df, j)

\* C18 witness: "histogram of fare" on the table with the columns Age and
\* Fare charted Fare, the second numeric column, without its null.
C18_Witness ==
    /\ AiChartGiven
    /\ request.user_query = <<"h", "i", "s", "t", "o", "g", "r", "a", "m", " ", "o", "f", " ", "f", "a", "r", "e">>
    /\ request.df = AgeFareTable
    /\ IsChartPayload(response.payload)
    /\ response.payload.chart_json.title = <<"Distribution of", COL_Fare>>
    /\ response.payload.chart_json.x = <<Num(7), Num(8), Num(7)>>

\* The number of oracle invocations in the calls of one chat query.
OracleCalls(trace) ==
    Cardinality({k \in 1..Len(trace) : trace[k] = "oracle"})

\* C19: while one chat query on an existing session is served the oracle
\* is invoked at most once: once when the intent is text, never when it is
\* chart; when the oracle fails, the one call is all and the answer is the
\* error payload.
C19_OracleAtMostOnce ==
    (ChatServed /\ Exists(temp_dir, PklName(request.session_id)))
        => LET intent == _determine_user_intent(request.user_query)
               calls == OracleCalls(response.trace)
           IN  /\ calls <= 1
               /\ (intent = "text" /\ request.env.fault # "intent")
                    => calls = 1
               /\ intent = "chart" => calls = 0
               /\ (intent = "text" /\ request.env.fault = "text")
                    => /\ calls = 1
                       /\ response.status = 200
                       /\ IsErrorAnswer(response.response)

\* C19 witness: the oracle failed on a text query; it was called once and
\* the error payload was returned.
C19_Witness ==
    /\ ChatServed
    /\ _determine_user_intent(request.user_query) = "text"
    /\ request.env.fault = "text"
    /\ OracleCalls(response.trace) = 1
    /\ IsErrorAnswer(response.response)

\* The score of the description, in exact arithmetic, for a table with a
\* cell: trunc(100 - M - D / 2 - 5 * H + B) clamped to 0..100, where M is
\* the percentage of null cells, D the percentage of rows equal to an
\* earlier row, H the number of columns more than half null and B the bonus
\* of 5 for a numeric next to a categorical column.
DescribedScore(df) ==
    LET rows == NRows(df)
        cells == NRows(df) * NCols(df)
        nulls == Cardinality({c \in (1..NRows(df)) \X (1..NCols(df)) :
                                IsNull(df.rows[c[1]][c[2]])})
        dups == Cardinality({i \in 1..rows :
                                \E k \in 1..(i - 1) : df.rows[k] = df.rows[i]})
        H == Cardinality({j \in 1..NCols(df) : 2 * NullCount(df, j) > rows})
        B == IF /\ \E j \in 1..NCols(df) : Dtype(df, j) = "number"
                /\ \E j \in 1..NCols(df) : Dtype(df, j) = "object"
             THEN 5 ELSE 0
        \* (100 - 5H + B) - 100 * nulls / cells - 50 * dups / rows over the
        \* denominator cells * rows
        num == (100 - 5 * H + B) * cells * rows
                    - 100 * nulls * rows - 50 * dups * cells
    IN  Max(0, Min(100, TruncDiv(num, cells * rows)))

\* C20 as stated: for every table with at least one row and one column the
\* health score is clamp(trunc(100 - M - D/2 - 5H + B), 0, 100).
C20_Original ==
    (/\ request.op = "profile"
     /\ response.kind = "health"
     /\ NRows(request.df) >= 1
     /\ NCols(request.df) >= 1)
        => /\ ~response.result.raised
           /\ response.result.value = DescribedScore(request.df)

(***************************************************************************)
(* The order of the chart catalogue                                        *)
(***************************************************************************)
\* The place of each kind of chart in the catalogue.
KindOrder ==
    <<"overview", "survival_analysis", "age_analysis", "class_analysis",
      "gender_analysis", "fare_analysis", "embarkation_analysis",
      "family_analysis", "histogram", "categorical", "correlation">>

KindRank(type) == CHOOSE n \in 1..Len(KindOrder) : KindOrder[n] = type

\* The columns a conditional dashboard requires.
RequiredColumns(type) ==
    CASE type = "survival_analysis" -> {COL_Survived, COL_Pclass}
      [] type = "age_analysis" -> {COL_Age}
      [] type = "class_analysis" -> {COL_Pclass}
      [] type = "gender_analysis" -> {COL_Sex}
      [] type = "fare_analysis" -> {COL_Fare}
      [] type = "embarkation_analysis" -> {COL_Embarked}
      [] type = "family_analysis" -> {COL_SibSp, COL_Parch}
      [] OTHER -> {}

PerColumnKinds == {"histogram", "categorical"}

\* The catalogue keeps the order of the kinds, holds each dashboard at most
\* once, the per-column charts in column order, a conditional chart only
\* with its columns and the heatmap only with 3 numeric columns.
CatalogueOrdered(df, charts) ==
    /\ \A k \in 1..Len(charts) : \E n \in 1..Len(KindOrder) :
            KindOrder[n] = charts[k].type
    /\ \A k, n \in 1..Len(charts) :
          k < n =>
            /\ KindRank(charts[k].type) <= KindRank(charts[n].type)
            /\ charts[k].type = charts[n].type
                  => /\ charts[k].type \in PerColumnKinds
                     /\ HasColumn(df, charts[k].column)
                     /\ HasColumn(df, charts[n].column)
                     /\ ColIdx(df, charts[k].column)
                            < ColIdx(df, charts[n].column)
    /\ \A k \in 1..Len(charts) :
          /\ \A name \in RequiredColumns(charts[k].type) : HasColumn(df, name)
          /\ charts[k].type = "correlation" => Len(numeric_cols(df)) >= 3

\* The part of C21 that does not ask for the overview: the order of the
\* catalogue, whatever constructions raise.
C21_RestOfOrder ==
    CatalogueGiven => CatalogueOrdered(request.df, response.charts)

\* C21 as stated: when no plotting code raises, the overview dashboard is
\* present and first for every table, and the catalogue is in the fixed
\* order of the kinds with every conditional chart only when its columns
\* exist.
C21_Original ==
    (CatalogueGiven /\ request.failing = {})
        => /\ Len(response.charts) >= 1
           /\ response.charts[1].type = "overview"
           /\ CatalogueOrdered(request.df, response.charts)

(***************************************************************************)
(* The plain histograms of the catalogue                                   *)
(***************************************************************************)
\* The charts of the catalogue, before the per-column histograms, that are
\* built for the column called name.
EarlierChartsOf(charts, name) ==
    {k \in 1..Len(charts) : name \in RequiredColumns(charts[k].type)}

PlainHistogramsOf(charts, name) ==
    {k \in 1..Len(charts) :
        charts[k].type = "histogram" /\ charts[k].column = name}

\* C22 as stated: a numeric column with a non-null value and no emitted
\* dashboard of its own gets exactly one plain histogram, and a numeric
\* column with an emitted dashboard of its own gets none.
C22_Original ==
    CatalogueGiven
        => \A j \in 1..NCols(request.df) :
              Dtype(request.df, j) = "number"
                => LET name == request.df.columns[j]
                       earlier == EarlierChartsOf(response.charts, name)
                       plain == PlainHistogramsOf(response.charts, name)
                   IN  /\ (notna_sum(request.df, j) > 0 /\ earlier = {})
                            => Cardinality(plain) = 1
                       /\ earlier # {} => plain = {}

(***************************************************************************)
(* SimpleInsightsEngine: the insights paired with a chart                  *)
(*                                                                         *)
(* A finding is the tuple of the parts of its formatted string: the fixed  *)
(* text first, then the interpolated counts.  The fixed lists of trends,   *)
(* comparisons and recommendations are reduced to their first entry.       *)
(***************************************************************************)
CAT_overview == <<"o", "v", "e", "r", "v", "i", "e", "w">>
CAT_survival_analysis == <<"s", "u", "r", "v", "i", "v", "a", "l", "_", "a", "n", "a", "l", "y", "s", "i", "s">>
CAT_age_analysis == <<"a", "g", "e", "_", "a", "n", "a", "l", "y", "s", "i", "s">>
CAT_gender_analysis == <<"g", "e", "n", "d", "e", "r", "_", "a", "n", "a", "l", "y", "s", "i", "s">>
CAT_class_analysis == <<"c", "l", "a", "s", "s", "_", "a", "n", "a", "l", "y", "s", "i", "s">>
CAT_fare_analysis == <<"f", "a", "r", "e", "_", "a", "n", "a", "l", "y", "s", "i", "s">>
CAT_histogram == <<"h", "i", "s", "t", "o", "g", "r", "a", "m">>
CAT_categorical == <<"c", "a", "t", "e", "g", "o", "r", "i", "c", "a", "l">>
CAT_correlation == <<"c", "o", "r", "r", "e", "l", "a", "t", "i", "o", "n">>

\* The values 'female' and 'male' of a Sex column.
STR_female == Str(1)
STR_male == Str(2)

_error_insights(error) ==
    [key_findings |-> << <<"Analysis error: ", error>>,
                         <<"Please check data format and column names">> >>,
     statistical_significance |-> <<"Unable to calculate due to data issues">>,
     trends |-> << <<"Analysis unavailable - data format issues">> >>,
     comparisons |-> << <<"Unable to perform comparisons">> >>,
     business_recommendations |-> << <<"Data Quality Check">> >>]

\* str.replace('_', ' ')
ReplaceUnderscore(s) == [i \in 1..Len(s) |-> IF s[i] = "_" THEN " " ELSE s[i]]

_generic_insights(df, chart_type) ==
    [key_findings |->
        << <<"Dataset contains", NRows(df), "records across", NCols(df),
             "variables">>,
           <<"Chart type: ", Title(ReplaceUnderscore(chart_type))>>,
           <<"Visualization reveals meaningful data patterns and relationships">>,
           <<"Data structure suitable for comprehensive analysis">> >>,
     statistical_significance |->
        [test |-> "Descriptive statistical analysis",
         result |-> "Data patterns identified",
         interpretation |->
            "Dataset shows structured relationships suitable for insights"],
     trends |-> << <<"Data distribution reveals underlying patterns in the dataset">> >>,
     comparisons |->
        << <<"Multiple variables show interconnected relationships across",
             NRows(df), "observations">> >>,
     business_recommendations |-> << <<"Deep Dive Analysis">> >>]

\* The bundle of an analyzer that ran to its end.
AnalyzerInsights(findings, test) ==
    [key_findings |-> findings,
     statistical_significance |->
        [test |-> test, result |-> "patterns", interpretation |-> "fixed"],
     trends |-> << <<"fixed trends">> >>,
     comparisons |-> << <<"fixed comparisons">> >>,
     business_recommendations |-> << <<"fixed recommendations">> >>]

\* The mean of column j raises: a column of strings has no mean; for an
\* object column of no rows the outcome is the library version's
\* (env.empty_mean).
MeanRaises(df, j, env) ==
    /\ Dtype(df, j) = "object"
    /\ NRows(df) > 0 \/ env.empty_mean = "raises"

\* len(age_data[age_data < n])
CountBelow(cells, n) ==
    Cardinality({i \in 1..Len(cells) : cells[i][2] < n})

_survival_insights(df, env) ==
    IF ~HasColumn(df, COL_Survived)
    THEN _error_insights(<<"Survival column not found">>)
    ELSE LET j == ColIdx(df, COL_Survived)
             survived == Count(df, j, Num(1))
             total == NRows(df)
         IN  IF HasColumn(df, COL_Pclass) /\ MeanRaises(df, j, env)
             THEN _error_insights(<<"exception">>)
             ELSE AnalyzerInsights(
                    << <<"Overall survival rate", survived, "out of", total>>,
                       <<"Clear class-based survival patterns observed">> >>,
                    "Descriptive analysis of survival by passenger class")

_age_insights(df, env) ==
    IF ~HasColumn(df, COL_Age)
    THEN _error_insights(<<"Age column not found">>)
    ELSE LET j == ColIdx(df, COL_Age)
             age_data == DropNa(Column(df, j))
         IN  IF Len(age_data) = 0
             THEN _error_insights(<<"No age data available">>)
             ELSE IF Dtype(df, j) = "object"
             THEN _error_insights(<<"exception">>)
             ELSE AnalyzerInsights(
                    << <<"Average passenger age">>,
                       <<"Age groups", CountBelow(age_data, 18), "children",
                         CountBelow(age_data, 65) - CountBelow(age_data, 18),
                         "adults",
                         Len(age_data) - CountBelow(age_data, 65), "elderly">>,
                       <<"Age data available for", Len(age_data), "of",
                         NRows(df)>> >>,
                    "Age distribution and survival analysis")

_gender_insights(df, env) ==
    IF ~HasColumn(df, COL_Sex)
    THEN _error_insights(<<"Gender column not found">>)
    ELSE LET j == ColIdx(df, COL_Sex)
             male_count == Count(df, j, STR_male)
             female_count == Count(df, j, STR_female)
         IN  IF male_count + female_count = 0
             THEN _error_insights(<<"No gender data available">>)
             ELSE IF /\ HasColumn(df, COL_Survived)
                     /\ MeanRaises(df, ColIdx(df, COL_Survived), env)
             THEN _error_insights(<<"exception">>)
             ELSE AnalyzerInsights(
                    << <<"Gender distribution", male_count, "males",
                         female_count, "females">>,
                       IF female_count > 0
                       THEN <<"Male-to-female ratio", male_count, female_count>>
                       ELSE <<"Only males in dataset">> >>,
                    "Gender-based survival analysis")

generate_chart_insights(df, chart_type, env) ==
    Returned(CASE chart_type = CAT_survival_analysis -> _survival_insights(df, env)
               [] chart_type = CAT_age_analysis -> _age_insights(df, env)
               [] chart_type = CAT_gender_analysis -> _gender_insights(df, env)
               [] OTHER -> _generic_insights(df, chart_type))

(***************************************************************************)
(* The insights specification: one call of generate_chart_insights for a   *)
(* table and a chart category.                                             *)
(***************************************************************************)
InsightCategories ==
    {CAT_overview, CAT_survival_analysis, CAT_age_analysis,
     CAT_gender_analysis, CAT_class_analysis, CAT_fare_analysis,
     CAT_histogram, CAT_categorical, CAT_correlation, <<>>}

\* A manifest whose Age column holds text.
TextAgeTable ==
    ReadCsv(<<COL_Age, COL_Sex>>, << <<Str(3), Num(1)>>, <<Null, Num(2)>> >>)

InsightTables ==
    CatalogueTables \cup {TextSurvivedTable, TextAgeTable,
                          ReadCsv(<<COL_Survived, COL_Pclass>>, <<>>)}

InsightEnvs == [empty_mean : {"raises", "nan"}]

InitInsights ==
    /\ temp_dir = {}
    /\ issued = {}
    /\ request \in [op : {"insights"}, df : InsightTables,
                    chart_type : InsightCategories, env : InsightEnvs]
    /\ response = NoResponse

\* SimpleInsightsEngine.generate_chart_insights serves the pending request.
GenerateChartInsights ==
    /\ request.op = "insights"
    /\ response = NoResponse
    /\ response' = [kind |-> "insights",
                    result |-> generate_chart_insights(
                                  request.df, request.chart_type, request.env)]
    /\ UNCHANGED <<store, request>>

NextInsights == GenerateChartInsights

SpecInsights == InitInsights /\ [][NextInsights]_vars

InsightsGiven == request.op = "insights" /\ response.kind = "insights"

BundleFields ==
    {"key_findings", "statistical_significance", "trends", "comparisons",
     "business_recommendations"}

\* The category has no analyzer of its own.
NoAnalyzer(chart_type) ==
    chart_type \notin {CAT_survival_analysis, CAT_age_analysis,
                       CAT_gender_analysis}

\* The column the analyzer of the category requires is missing.
AnalyzerColumnMissing(df, chart_type) ==
    \/ chart_type = CAT_survival_analysis /\ ~HasColumn(df, COL_Survived)
    \/ chart_type = CAT_age_analysis /\ ~HasColumn(df, COL_Age)
    \/ chart_type = CAT_gender_analysis /\ ~HasColumn(df, COL_Sex)

\* key_findings states what is missing, and the other fields are the
\* placeholders.
StatesMissingRequirement(bundle) ==
    /\ bundle.key_findings[1][1] = "Analysis error: "
    /\ bundle.trends = << <<"Analysis unavailable - data format issues">> >>
    /\ bundle.comparisons = << <<"Unable to perform comparisons">> >>

\* The part of C23 that holds: the call never raises and the bundle has
\* exactly the five fields; with a required column missing, key_findings
\* says so.
C23_FiveFieldsNeverRaises ==
    InsightsGiven
        => /\ ~response.result.raised
           /\ DOMAIN response.result.value = BundleFields
           /\ AnalyzerColumnMissing(request.df, request.chart_type)
                => StatesMissingRequirement(response.result.value)

\* C23 as stated: the call never raises, the bundle has exactly the five
\* fields, and for a category without analyzer or with a required column
\* missing key_findings states the missing requirement and the other fields
\* are placeholders.
C23_Original ==
    InsightsGiven
        => /\ ~response.result.raised
           /\ DOMAIN response.result.value = BundleFields
           /\ (\/ NoAnalyzer(request.chart_type)
               \/ AnalyzerColumnMissing(request.df, request.chart_type))
                => StatesMissingRequirement(response.result.value)

(***************************************************************************)
(* The table a routine is given, after the routine                         *)
(*                                                                         *)
(* The chart routines that derive a column assign it to df_temp, a copy of *)
(* the table; Tables(df, df_temp) is the pair of the caller's table and    *)
(* the routine's working table when the routine ends.                      *)
(***************************************************************************)
COL_AgeGroup == <<"A", "g", "e", "G", "r", "o", "u", "p">>
COL_FamilySize == <<"F", "a", "m", "i", "l", "y", "S", "i", "z", "e">>

\* A category of pd.cut: the k-th label.
Label(k) == <<"label", k>>

\* df_temp[name] = cells
WithColumn(df, name, cells) ==
    [columns |-> Append(df.columns, name),
     rows |-> [i \in 1..NRows(df) |-> Append(df.rows[i], cells[i])]]

HasText(df, j) == \E i \in 1..NRows(df) : df.rows[i][j][1] = "str"

\* pd.cut(age, bins=[0, 12, 18, 35, 60, 100], labels=..., right=False)
age_bins == <<0, 12, 18, 35, 60, 100>>

Cut(cell) ==
    IF IsNull(cell) \/ cell[2] < age_bins[1] \/ cell[2] >= age_bins[6]
    THEN Null
    ELSE Label(CHOOSE k \in 1..5 :
                    age_bins[k] <= cell[2] /\ cell[2] < age_bins[k + 1])

\* SibSp + Parch + 1 of one row
FamilySizeOf(a, b) == IF IsNull(a) \/ IsNull(b) THEN Null ELSE Num(a[2] + b[2] + 1)

\* The mutation of the age dashboard that derives AgeGroup in the table it
\* was given.
AgeChartTablesNoCopy(df) ==
    LET j == ColIdx(df, COL_Age)
        derived == IF HasText(df, j) THEN df
                   ELSE WithColumn(df, COL_AgeGroup,
                                   [i \in 1..NRows(df) |-> Cut(df.rows[i][j])])
    IN  [df |-> derived, df_temp |-> derived]

\* _create_age_distribution_chart: df_temp = df.copy(), then the AgeGroup
\* column unless pd.cut raises on a column of text.
AgeChartTables(df) ==
    LET j == ColIdx(df, COL_Age)
        df_temp == df
    IN  [df |-> df,
         df_temp |-> IF HasText(df_temp, j) THEN df_temp
                     ELSE WithColumn(df_temp, COL_AgeGroup,
                            [i \in 1..NRows(df_temp) |-> Cut(df_temp.rows[i][j])])]

\* _create_family_analysis_chart: df_temp = df.copy(), then the FamilySize
\* column unless the sum raises on text.
FamilyChartTables(df) ==
    LET s == ColIdx(df, COL_SibSp)
        p == ColIdx(df, COL_Parch)
        df_temp == df
    IN  [df |-> df,
         df_temp |-> IF HasText(df_temp, s) \/ HasText(df_temp, p) THEN df_temp
                     ELSE WithColumn(df_temp, COL_FamilySize,
                            [i \in 1..NRows(df_temp) |->
                                FamilySizeOf(df_temp.rows[i][s],
                                             df_temp.rows[i][p])])]

\* The caller's table after the constructions tried[k..]: the routines
\* other than the two above assign nothing.
RECURSIVE TableAfterAttempts(_, _, _)
TableAfterAttempts(df, tried, k) ==
    IF k > Len(tried) THEN df
    ELSE TableAfterAttempts(
            CASE tried[k][1] = "age_analysis" -> AgeChartTables(df).df
              [] tried[k][1] = "family_analysis" -> FamilyChartTables(df).df
              [] OTHER -> df,
            tried, k + 1)

\* The table given to analyze_dataframe, after it: the summary and the
\* technical info read it only.
TableAfterProfiling(df) == TableAfterAttempts(df, Attempts(df), 1)

\* The table given to generate_chart, after it: no routine of the router
\* assigns to the table or to a copy.
TableAfterRouting(df, user_query, conversation_history, env) == df

(***************************************************************************)
(* The frame specification: one table of at most MaxFrameRows generated    *)
(* rows given once to profiling or to the router; the response holds the   *)
(* result and the table afterwards.                                        *)
(***************************************************************************)
\* A manifest with the columns the derived columns are computed from.
FamilyTable ==
    ReadCsv(<<COL_Age, COL_SibSp, COL_Parch>>,
            << <<Num(22), Num(1), Num(0)>>, <<Null, Num(0), Null>>,
               <<Num(70), Num(1), Num(2)>>, <<Num(120), Num(0), Num(0)>> >>)

MaxFrameRows == 1

FrameHeaders ==
    {<<COL_Age>>, <<COL_SibSp, COL_Parch>>, <<COL_Age, COL_SibSp, COL_Parch>>}

FrameTables ==
    {TitanicTable, PlainTable, HeaderOnlyTable, NumericTable,
     TextSurvivedTable, TextAgeTable, AgeFareTable, NullFareTable,
     FamilyTable}
        \cup UNION {{ReadCsv(h, rows) :
                        rows \in [1..r -> [1..Len(h) -> CatalogueCells]]} :
                    h \in FrameHeaders, r \in 0..MaxFrameRows}

InitFrame ==
    /\ temp_dir = {}
    /\ issued = {}
    /\ request \in
          [op : {"profile"}, df : FrameTables]
            \cup [op : {"route"}, df : FrameTables, user_query : RouterQueries,
                  conversation_history : {<<>>}, env : PathEnvs]
    /\ response = NoResponse

\* DataAnalyzer.analyze_dataframe serves the pending request.
AnalyzeDataframe ==
    /\ request.op = "profile"
    /\ response = NoResponse
    /\ response' = [kind |-> "report",
                    result |-> analyze_dataframe(request.df),
                    df |-> TableAfterProfiling(request.df)]
    /\ UNCHANGED <<store, request>>

\* AIService.generate_chart serves the pending request.
GenerateChart ==
    /\ request.op = "route"
    /\ response = NoResponse
    /\ response' = [kind |-> "payload",
                    result |-> generate_chart(request.df, request.user_query,
                                              request.conversation_history,
                                              request.env),
                    df |-> TableAfterRouting(request.df, request.user_query,
                                             request.conversation_history,
                                             request.env)]
    /\ UNCHANGED <<store, request>>

NextFrame == AnalyzeDataframe \/ GenerateChart

SpecFrame == InitFrame /\ [][NextFrame]_vars

FrameGiven == request.op \in {"profile", "route"} /\ response.kind # "none"

C24_ChatKeepsStore == [][ChatQuery => temp_dir' = temp_dir]_vars

(***************************************************************************)
(* The lifetime of a session                                               *)
(***************************************************************************)
\* The file called name is the pickle or an uploaded file of session_id.
OfSession(name, session_id) ==
    \/ name = PklName(session_id)
    \/ /\ Len(name) > Len(session_id)
       /\ SubSeq(name, 1, Len(session_id) + 1) = session_id \o <<"_">>

FilesOf(dir, session_id) == {n \in FileNames(dir) : OfSession(n, session_id)}

\* The step is the request op with this session id.
Called(op, session_id, req) == req.op = op /\ req.session_id = session_id

\* C25: an upload that returns session id s leaves the table of s in the
\* store; the table stays through every step that is not cleanup(s), and a
\* chat query on s finds it; cleanup(s) leaves no file of s, no later step
\* brings one back, and a chat query on s then ends in 404.
C25_SessionLifetime ==
    [][\A s \in issued' :
        /\ (/\ request'.op = "upload"
            /\ response'.status = 200
            /\ response'.session_id = s)
                => Exists(temp_dir', PklName(s))
        /\ (/\ Exists(temp_dir, PklName(s))
            /\ ~Called("cleanup", s, request'))
                => Exists(temp_dir', PklName(s))
        /\ Called("cleanup", s, request') => FilesOf(temp_dir', s) = {}
        /\ (s \in issued /\ FilesOf(temp_dir, s) = {})
                => FilesOf(temp_dir', s) = {}
        /\ Called("chat", s, request')
                => (response'.status = 404 <=> ~Exists(temp_dir, PklName(s)))
      ]_vars

\* C25 witness: cleanup of an issued session has ended, no file of the
\* session is left, and the table of another session is still stored.
C25_Witness ==
    /\ request.op = "cleanup"
    /\ request.session_id \in issued
    /\ response.status = 200
    /\ FilesOf(temp_dir, request.session_id) = {}
    /\ \E t \in issued : Exists(temp_dir, PklName(t))

(***************************************************************************)
(* The independence of the sessions                                        *)
(***************************************************************************)
\* The persisted table and the uploaded file of session_id, with their
\* contents.
ArtifactsOf(dir, session_id) == {f \in dir : OfSession(f[1], session_id)}

\* The session id a step is performed with: the fresh id of an upload, the
\* argument of a chat query or a cleanup.
SessionOfStep(before, after, req) ==
    IF req.op = "upload" THEN after \ before ELSE {req.session_id}

\* C26 as stated: a step performed with session id s leaves the persisted
\* table and the uploaded file of every other session that has a persisted
\* table as they were.
C26_Original ==
    [][\A t \in issued :
          (/\ Exists(temp_dir, PklName(t))
           /\ t \notin SessionOfStep(issued, issued', request'))
              => ArtifactsOf(temp_dir', t) = ArtifactsOf(temp_dir, t)]_vars

\* The part of C26 that holds: no step performed with another session id
\* changes or removes the persisted table of a session.
C26_TablesIndependent ==
    [][\A t \in issued :
          t \notin SessionOfStep(issued, issued', request')
              => \A f \in temp_dir :
                    f[1] = PklName(t) => f \in temp_dir']_vars

(***************************************************************************)
(* The chart path and the conversation history                             *)
(***************************************************************************)
\* The query of the request is served on the chart path.
OnChartPath(req) ==
    /\ req.env.fault # "intent"
    /\ _determine_user_intent(req.user_query) = "chart"

\* C27: the response to a chat query served on the chart path is the
\* response to the same query on the same table with any other
\* conversation history.
C27_HistoryIgnoredOnChartPath ==
    (ChatServed /\ OnChartPath(request))
        => \A h \in Histories :
              chat_query(temp_dir, request.session_id, request.user_query,
                         h, request.env) = response

\* C27 witness: a query with earlier messages in its conversation was
\* answered with a chart.
C27_Witness ==
    /\ ChatServed
    /\ OnChartPath(request)
    /\ Len(request.conversation_history) >= 4
    /\ response.status = 200
    /\ IsChartAnswer(response.response)

(***************************************************************************)
(* The store after a failed upload                                         *)
(***************************************************************************)
\* C28 as stated: an upload that does not return a session id leaves the
\* store as it was before the request.
C28_Original ==
    [][(request'.op = "upload" /\ response'.status # 200)
            => temp_dir' = temp_dir]_vars

\* The part of C28 that holds: an upload refused for its extension leaves
\* the store as it was.
C28_RefusedExtension ==
    [][(request'.op = "upload" /\ ~AcceptedName(request'.filename))
            => temp_dir' = temp_dir]_vars

(***************************************************************************)
(* The race specification: one chat query and one cleanup of the same      *)
(* session, step by step                                                   *)
(*                                                                         *)
(* Neither handler suspends between its file operations, so in one event   *)
(* loop (request.workers = "one", as uvicorn.run(app) starts it) a handler *)
(* runs from its first step to its last before the other proceeds; with    *)
(* several worker processes over the same TEMP_DIR (request.workers =      *)
(* "many") the steps interleave.  response holds the position of each      *)
(* handler, the table the chat query has loaded, and the two results.      *)
(***************************************************************************)
RaceTables == {TitanicTable, PlainTable, NumericTable, TextSurvivedTable}

InitRace ==
    /\ \E df \in RaceTables :
        temp_dir = {<<PklName(UUID_a1), df>>,
                    <<UploadName(UUID_a1, FILE_d_csv), CsvFile(df)>>}
    /\ issued = {UUID_a1}
    /\ request \in [op : {"race"}, workers : {"one", "many"},
                    session_id : {UUID_a1}, user_query : ServerQueries,
                    conversation_history : {<<MSG_user>>}, env : ChatEnvs]
    /\ response = [kind |-> "race", chat_pc |-> "exists",
                   cleanup_pc |-> "exists", df |-> Null,
                   chat |-> NoResponse, cleanup |-> NoResponse]

\* A handler may take a step: it is in the race, and in one event loop the
\* other handler is not between two of its steps.
MayStep(other_pc) ==
    /\ request.op = "race"
    /\ request.workers = "one" => response[other_pc] \in {"exists", "done"}

\* chat_query: if not df_path.exists(): raise HTTPException(404)
ChatExists ==
    /\ MayStep("cleanup_pc")
    /\ response.chat_pc = "exists"
    /\ response' =
          IF Exists(temp_dir, PklName(request.session_id))
          THEN [response EXCEPT !.chat_pc = "read_pickle"]
          ELSE [response EXCEPT !.chat_pc = "done",
                                !.chat = Http(404, "Session not found")]
    /\ UNCHANGED <<store, request>>

\* chat_query: df = pd.read_pickle(df_path); a path that is gone raises
\* FileNotFoundError, which the handler turns into HTTP 500.
ChatReadPickle ==
    /\ MayStep("cleanup_pc")
    /\ response.chat_pc = "read_pickle"
    /\ response' =
          IF Exists(temp_dir, PklName(request.session_id))
          THEN [response EXCEPT
                    !.chat_pc = "generate_chart",
                    !.df = ReadFile(temp_dir, PklName(request.session_id))]
          ELSE [response EXCEPT
                    !.chat_pc = "done",
                    !.chat = [status |-> 500,
                              detail |-> "Error processing query",
                              trace |-> <<"read_pickle">>]]
    /\ UNCHANGED <<store, request>>

\* chat_query: response = await ai_service.generate_chart(...); return
ChatGenerateChart ==
    /\ MayStep("cleanup_pc")
    /\ response.chat_pc = "generate_chart"
    /\ LET routed == generate_chart(response.df, request.user_query,
                                    request.conversation_history, request.env)
       IN  response' =
              [response EXCEPT
                  !.chat_pc = "done",
                  !.chat = IF routed.raised
                           THEN [status |-> 500,
                                 detail |-> "Error processing query",
                                 trace |-> RouterTrace(request.user_query,
                                                       request.env)]
                           ELSE [status |-> 200, response |-> routed.value,
                                 trace |-> RouterTrace(request.user_query,
                                                       request.env)]]
    /\ UNCHANGED <<store, request>>

\* cleanup_session: if df_path.exists():
CleanupExists ==
    /\ MayStep("chat_pc")
    /\ response.cleanup_pc = "exists"
    /\ response' =
          [response EXCEPT !.cleanup_pc =
                IF Exists(temp_dir, PklName(request.session_id))
                THEN "unlink" ELSE "glob"]
    /\ UNCHANGED <<store, request>>

\* cleanup_session: df_path.unlink()
CleanupUnlink ==
    /\ MayStep("chat_pc")
    /\ response.cleanup_pc = "unlink"
    /\ IF Exists(temp_dir, PklName(request.session_id))
       THEN /\ temp_dir' = Unlink(temp_dir, {PklName(request.session_id)})
            /\ response' = [response EXCEPT !.cleanup_pc = "glob"]
       ELSE /\ temp_dir' = temp_dir
            /\ response' = [response EXCEPT
                                !.cleanup_pc = "done",
                                !.cleanup = Http(500, "Cleanup error")]
    /\ UNCHANGED <<issued, request>>

\* cleanup_session: the loop over TEMP_DIR.glob(f"{session_id}_*"); return
CleanupGlob ==
    /\ MayStep("chat_pc")
    /\ response.cleanup_pc = "glob"
    /\ temp_dir' = Unlink(temp_dir,
                     {n \in FileNames(temp_dir) :
                        GlobMatch(request.session_id \o <<"_", "*">>, n)})
    /\ response' = [response EXCEPT
                        !.cleanup_pc = "done",
                        !.cleanup = cleanup_response(request.session_id,
                                                     request.env)]
    /\ UNCHANGED <<issued, request>>

NextRace ==
    \/ ChatExists
    \/ ChatReadPickle
    \/ ChatGenerateChart
    \/ CleanupExists
    \/ CleanupUnlink
    \/ CleanupGlob

SpecRace == InitRace /\ [][NextRace]_vars

ChatDone == request.op = "race" /\ response.chat_pc = "done"

\* The outcome is SessionNotFound or the router's response computed from
\* the complete table of the session.
NormalOr404(resp) ==
    \/ resp = Http(404, "Session not found")
    \/ \E df \in RaceTables :
          resp = chat_query({<<PklName(request.session_id), df>>},
                            request.session_id, request.user_query,
                            request.conversation_history, request.env)

\* C29 as stated: under every interleaving of the steps of the chat query
\* and of the cleanup, the outcome of the query is a normal router response
\* computed from the complete table or SessionNotFound.
C29_Original == ChatDone => NormalOr404(response.chat)

\* The part of C29 that holds: in one event loop, where a handler runs to
\* its end before the other proceeds, the outcome is normal or
\* SessionNotFound.
C29_OneEventLoop ==
    (ChatDone /\ request.workers = "one") => NormalOr404(response.chat)

(***************************************************************************)
(* The health score and one more null cell                                 *)
(***************************************************************************)
\* The health score was computed for a table with a cell and, before, for
\* the same table with one null cell less.
ScoredBeforeAndAfter ==
    /\ request.op = "profile"
    /\ response.kind = "health"
    /\ request.prev.kind = "health"
    /\ NRows(request.df) >= 1
    /\ NCols(request.df) >= 1

\* C30 as stated: replacing one non-null cell by null never increases the
\* health score.
C30_Original ==
    ScoredBeforeAndAfter
        => /\ ~response.result.raised
           /\ ~request.prev.result.raised
           /\ response.result.value <= request.prev.result.value

====
